---- MODULE Spec2Model ----
(***************************************************************************)
(* State-machine model of the chat gateway: the SQL validator and the      *)
(* warehouse client (services/bigquery.js), the LLM pipeline               *)
(* (services/gemini.js) and the chat routes with their schema cache        *)
(* (routes/chat.js).                                                       *)
(*                                                                         *)
(* Representation.  A JavaScript string that the code inspects character   *)
(* by character (SQL text, model replies) is a sequence of one-character   *)
(* strings.  An error message is a sequence of text parts; `+` on messages *)
(* is \o, and message.includes(marker) is membership of the marker among   *)
(* the parts.  null is the model value Null, an absent property Undefined. *)
(***************************************************************************)
EXTENDS Integers, Sequences, FiniteSets, TLC

VARIABLES
    vin,                \* pure-function harness: the input string
    vout,               \* pure-function harness: result of validateQuery(vin)
    gllm,               \* pure-function harness: the LLM result given to generateSQLQuery
    gout,               \* pure-function harness: result of generateSQLQuery(gllm)
    vmeta,              \* pure-function harness: behaviour of the metadata service
    dsout,              \* pure-function harness: result of getDatasetSchema under vmeta
    cin,                \* pure-function harness: the schema given to compactSchema
    cout,               \* pure-function harness: result of compactSchema(cin)
    applied,            \* pure-function harness: the functions applied so far
    clock,              \* Date.now()
    ticks,              \* number of clock advances so far
    cachedSchema,       \* routes/chat.js: let cachedSchema
    schemaLastUpdated,  \* routes/chat.js: let schemaLastUpdated
    pc,                 \* per request: the await the handler is suspended at
    route,              \* per request: which route handler runs
    message,            \* per request: req.body.message
    now,                \* per request: getSchema's local `now`
    schema,             \* per request: value getSchema returned to the route
    needsDatabase,      \* per request: processMessage's needsDatabase
    reply,              \* per request: text of the model's reply to the SQL prompt
    sqlQuery,           \* per request: value returned by generateSQLQuery
    queryResults,       \* per request: rows returned by executeQueryFunc
    outcome,            \* per request: object returned by processMessage
    status,             \* per request: HTTP status sent by the route, 0 before
    called,             \* per request: functions entered so far
    raised,             \* per request: the exception that reached processMessage's catch,
                        \* or that a direct call of generateSQLQuery ended with
    whError,            \* per request: the error bigquery.query rejected with
    cachedModelName,    \* services/gemini.js: let _cachedModelName
    cacheTimestamp,     \* services/gemini.js: let _cacheTimestamp
    envModel,           \* process.env.GEMINI_MODEL
    candidateIx,        \* per call of getModelName: position in candidates, 0 outside the loop
    modelName,          \* per call: the value getModelName returned
    llmLog,             \* per call: the requests it sent to the LLM service, in order
    credentialsConfigured,  \* services/bigquery.js: bigquery client was built
    queried,            \* the strings handed to bigquery.query so far
    apiKeyConfigured,   \* process.env.GEMINI_API_KEY is set
    generalCaught,      \* per request: the catch of processGeneralQuestion ran
    fin,                \* pure-function harness: the arguments of one call
    fout,               \* pure-function harness: what that call produced
    isProcessing,       \* public/js/chat.js: let isProcessing
    sendButtonDisabled, \* public/js/chat.js: sendButton.disabled
    messageInputDisabled,   \* public/js/chat.js: messageInput.disabled
    messageInputValue,  \* public/js/chat.js: messageInput.value
    suggestionsDisplay, \* public/js/chat.js: suggestionsContainer.style.display
    typingIndicators,   \* public/js/chat.js: elements with id typing-indicator in the chat
    chatMessages,       \* public/js/chat.js: the bubbles appended by addMessage, in order
    wpc,                \* per sendMessage call: the await it is suspended at
    fetches             \* per sendMessage call: requests it sent to /api/chat/message

vars == <<vin, vout, gllm, gout, vmeta, dsout, cin, cout, applied, clock, ticks,
          cachedSchema, schemaLastUpdated, pc, route, message, now, schema,
          needsDatabase, reply, sqlQuery, queryResults, outcome, status, called,
          raised, whError, cachedModelName, cacheTimestamp, envModel,
          candidateIx, modelName, llmLog, credentialsConfigured, queried,
          apiKeyConfigured, generalCaught, fin, fout, isProcessing,
          sendButtonDisabled, messageInputDisabled, messageInputValue,
          suggestionsDisplay, typingIndicators, chatMessages, wpc, fetches>>

modelVars == <<cachedModelName, cacheTimestamp, envModel, candidateIx,
               modelName, llmLog>>

pureVars == <<vin, vout, gllm, gout, vmeta, dsout, cin, cout, applied, fin,
              fout>>

widgetVars == <<isProcessing, sendButtonDisabled, messageInputDisabled,
                messageInputValue, suggestionsDisplay, typingIndicators,
                chatMessages, wpc, fetches>>

cacheVars == <<cachedSchema, schemaLastUpdated>>

reqVars == <<pc, route, message, now, schema, needsDatabase, reply, sqlQuery,
             queryResults, outcome, status, called, raised, whError,
             generalCaught>>

\* null and an absent property; every string, message and row list of the
\* model is a sequence, and so are these two
Null == <<"NULL">>

Undefined == <<"UNDEFINED">>

\* schemaLastUpdated = null
NullTime == -1

(***************************************************************************)
(* Bounds of the model.                                                    *)
(***************************************************************************)
MaxFrags == 3

NumReqs == 1

NumCallers == 2

MaxTicks == 2

MaxTables == 2

MaxCandidates == 6

MaxFields == 22

NumSends == 3

MaxQuestion == 12

(***************************************************************************)
(* JavaScript string primitives used by the code.                          *)
(***************************************************************************)
LowerChars ==
    <<"a", "b", "c", "d", "e", "f", "g", "h", "i", "j", "k", "l", "m",
      "n", "o", "p", "q", "r", "s", "t", "u", "v", "w", "x", "y", "z">>

UpperChars ==
    <<"A", "B", "C", "D", "E", "F", "G", "H", "I", "J", "K", "L", "M",
      "N", "O", "P", "Q", "R", "S", "T", "U", "V", "W", "X", "Y", "Z">>

WhiteSpace == {" ", "\n", "\t"}

toUpperChar(c) ==
    IF \E i \in 1..Len(LowerChars) : LowerChars[i] = c
    THEN UpperChars[CHOOSE i \in 1..Len(LowerChars) : LowerChars[i] = c]
    ELSE c

toUpperCase(s) == [i \in 1..Len(s) |-> toUpperChar(s[i])]

RECURSIVE trimStart(_)
trimStart(s) ==
    IF s # <<>> /\ Head(s) \in WhiteSpace THEN trimStart(Tail(s)) ELSE s

RECURSIVE trimEnd(_)
trimEnd(s) ==
    IF s # <<>> /\ s[Len(s)] \in WhiteSpace
    THEN trimEnd(SubSeq(s, 1, Len(s) - 1))
    ELSE s

trim(s) == trimEnd(trimStart(s))

startsWith(s, p) == Len(s) >= Len(p) /\ SubSeq(s, 1, Len(p)) = p

includes(s, p) ==
    \E i \in 1..(Len(s) - Len(p) + 1) : SubSeq(s, i, i + Len(p) - 1) = p

\* s.replace(/p/g, ''): one left-to-right scan, matches do not overlap
RECURSIVE removeAll(_, _)
removeAll(s, p) ==
    IF s = <<>> THEN <<>>
    ELSE IF startsWith(s, p) THEN removeAll(SubSeq(s, Len(p) + 1, Len(s)), p)
    ELSE <<Head(s)>> \o removeAll(Tail(s), p)

(***************************************************************************)
(* String literals of the code.                                            *)
(***************************************************************************)
SELECT == <<"S", "E", "L", "E", "C", "T">>

ERRO == <<"E", "R", "R", "O">>

\* the backtick character (a backtick cannot be written in a TLA+ string)
BT == "BACKTICK"

FENCE_SQL == <<BT, BT, BT, "s", "q", "l">>

FENCE == <<BT, BT, BT>>

forbiddenCommands ==
    << <<"D", "R", "O", "P">>,
       <<"D", "E", "L", "E", "T", "E">>,
       <<"U", "P", "D", "A", "T", "E">>,
       <<"I", "N", "S", "E", "R", "T">>,
       <<"A", "L", "T", "E", "R">>,
       <<"C", "R", "E", "A", "T", "E">>,
       <<"T", "R", "U", "N", "C", "A", "T", "E">>,
       <<"G", "R", "A", "N", "T">>,
       <<"R", "E", "V", "O", "K", "E">> >>

(***************************************************************************)
(* services/bigquery.js: validateQuery.                                    *)
(***************************************************************************)
\* the for loop over forbiddenCommands, returning at the first hit
RECURSIVE containsForbidden(_, _)
containsForbidden(upperSQL, i) ==
    IF i > Len(forbiddenCommands) THEN FALSE
    ELSE IF includes(upperSQL, forbiddenCommands[i]) THEN TRUE
    ELSE containsForbidden(upperSQL, i + 1)

\* validateQuery with the prefix test made on the untrimmed text
validateQueryNoTrim(sql) ==
    LET upperSQL == toUpperCase(sql)
    IN  IF containsForbidden(upperSQL, 1) THEN FALSE
        ELSE IF ~startsWith(upperSQL, SELECT) THEN FALSE
        ELSE TRUE

validateQuery(sql) ==
    LET upperSQL == toUpperCase(sql)
    IN  IF containsForbidden(upperSQL, 1) THEN FALSE
        ELSE IF ~startsWith(trim(upperSQL), SELECT) THEN FALSE
        ELSE TRUE

(***************************************************************************)
(* services/bigquery.js: executeQuery.  The function has one await, the    *)
(* call of bigquery.query; executeQueryBegin is the part before it and     *)
(* executeQueryEnd the part after it.  Both run inside the same try, whose *)
(* catch is translateError.                                                *)
(***************************************************************************)
MSG_NOT_CONFIGURED ==
    <<"BigQuery nao esta configurado. Verifique se as credenciais foram definidas nas variaveis de ambiente.">>

MSG_NOT_ALLOWED ==
    <<"Query SQL nao permitida. Apenas comandos SELECT sao aceitos.">>

MSG_TABLE_NOT_FOUND ==
    <<"Tabela nao encontrada no BigQuery. Verifique o nome da tabela.">>

MSG_SYNTAX ==
    <<"Erro de sintaxe na query SQL. Por favor, reformule sua pergunta.">>

MSG_PERMISSION ==
    <<"Sem permissao para acessar os dados. Verifique as credenciais e permissoes da service account.">>

MSG_QUERY_PREFIX == <<"Erro ao consultar dados: ">>

msgIncludes(msg, marker) == \E i \in 1..Len(msg) : msg[i] = marker

\* a catch that wraps every error text
translateErrorRaw(msg) == MSG_QUERY_PREFIX \o msg

\* a catch that looks for the syntax error first
translateErrorSyntaxFirst(msg) ==
    IF msgIncludes(msg, "Syntax error") THEN MSG_SYNTAX
    ELSE IF msgIncludes(msg, "Not found: Table") THEN MSG_TABLE_NOT_FOUND
    ELSE IF msgIncludes(msg, "Permission denied") \/ msgIncludes(msg, "Access Denied")
         THEN MSG_PERMISSION
    ELSE MSG_QUERY_PREFIX \o msg

translateError(msg) ==
    IF msgIncludes(msg, "Not found: Table") THEN MSG_TABLE_NOT_FOUND
    ELSE IF msgIncludes(msg, "Syntax error") THEN MSG_SYNTAX
    ELSE IF msgIncludes(msg, "Permission denied") \/ msgIncludes(msg, "Access Denied")
         THEN MSG_PERMISSION
    ELSE MSG_QUERY_PREFIX \o msg

\* executeQuery without the validateQuery test
executeQueryBeginUnchecked(sql, configured) ==
    IF ~configured
    THEN [threw |-> TRUE, message |-> translateError(MSG_NOT_CONFIGURED)]
    ELSE [threw |-> FALSE, message |-> <<>>]

\* threw = FALSE: bigquery.query is called with sql
executeQueryBegin(sql, configured) ==
    IF ~configured
    THEN [threw |-> TRUE, message |-> translateError(MSG_NOT_CONFIGURED)]
    ELSE IF ~validateQuery(sql)
    THEN [threw |-> TRUE, message |-> translateError(MSG_NOT_ALLOWED)]
    ELSE [threw |-> FALSE, message |-> <<>>]

\* wh: what bigquery.query did, [ok, rows, message]
executeQueryEnd(wh) ==
    IF wh.ok
    THEN [threw |-> FALSE, value |-> wh.rows, message |-> <<>>]
    ELSE [threw |-> TRUE, value |-> <<>>, message |-> translateError(wh.message)]

\* one whole call: sent tells whether bigquery.query was called
executeQuery(sql, configured, wh) ==
    LET beg == executeQueryBegin(sql, configured)
        end == executeQueryEnd(wh)
    IN  IF beg.threw
        THEN [threw |-> TRUE, value |-> <<>>, message |-> beg.message,
              sent |-> FALSE]
        ELSE [threw |-> end.threw, value |-> end.value, message |-> end.message,
              sent |-> TRUE]

(***************************************************************************)
(* services/bigquery.js: listTables, getTableSchema, getDatasetSchema.     *)
(* meta is what the metadata service did during one call:                  *)
(* [listOk, tableNames, okTables].  A schema is the sequence of the table  *)
(* names it holds, in insertion order.                                     *)
(***************************************************************************)
AllTableNames == <<"t1", "t2", "t3", "t4">>

MSG_DATASET_SCHEMA == <<"Nao foi possivel obter o schema do dataset">>

\* the for loop over tableNames: a table whose getTableSchema throws is skipped
RECURSIVE collectSchemas(_, _)
collectSchemas(tableNames, okTables) ==
    IF tableNames = <<>> THEN <<>>
    ELSE IF Head(tableNames) \in okTables
    THEN <<Head(tableNames)>> \o collectSchemas(Tail(tableNames), okTables)
    ELSE collectSchemas(Tail(tableNames), okTables)

\* getDatasetSchema in which a table's failure escapes the loop
getDatasetSchemaStrict(meta, configured) ==
    IF ~configured \/ ~meta.listOk
       \/ \E i \in 1..Len(meta.tableNames) : meta.tableNames[i] \notin meta.okTables
    THEN [threw |-> TRUE, value |-> <<>>, message |-> MSG_DATASET_SCHEMA]
    ELSE [threw |-> FALSE, value |-> meta.tableNames, message |-> <<>>]

\* with no client, bigquery.dataset is a property read on null: listTables throws
getDatasetSchema(meta, configured) ==
    IF ~configured \/ ~meta.listOk
    THEN [threw |-> TRUE, value |-> <<>>, message |-> MSG_DATASET_SCHEMA]
    ELSE [threw |-> FALSE, message |-> <<>>,
          value |-> collectSchemas(meta.tableNames, meta.okTables)]

(***************************************************************************)
(* services/gemini.js.  llm is what one use of the LLM did (model          *)
(* selection and generateContent together): [ok, text, message].           *)
(***************************************************************************)
MSG_GEN_PREFIX == <<"Erro ao gerar query: ">>

MSG_GEN_INVALID == <<"IA nao conseguiu gerar query valida: ">>

MSG_INTERNAL == <<"Erro interno ao processar IA.">>

MSG_APOLOGY == <<"Desculpe, estou tendo dificuldades para responder agora.">>

MSG_DATA_PREFIX == <<"Aqui estao os dados encontrados: ">>

(***************************************************************************)
(* services/gemini.js: compactSchema, the function local to                *)
(* generateSQLQuery.  inputSchema is [dataset, tables]; tables is the      *)
(* sequence of the entries of the object, in insertion order, each         *)
(* [name, kind, fields]: kind is "null" when the value of the entry is     *)
(* null, "nofields" when it has no fields property, "object" otherwise.    *)
(* The result is [form, dataset, tables_available, tables]: form is        *)
(* "compact" for the object built in the try and "names" for the one       *)
(* built in the catch, whose tables is the list of the table names.        *)
(***************************************************************************)
\* Array.prototype.slice(from, to) for 0 <= from <= to
slice(s, from, to) == SubSeq(s, from + 1, IF to < Len(s) THEN to ELSE Len(s))

tableNamesOf(tables) == [i \in 1..Len(tables) |-> tables[i].name]

\* compactSchema keeping every field
compactSchemaNoSlice(inputSchema) ==
    [form |-> "compact",
     dataset |-> IF inputSchema.dataset = Undefined THEN <<>> ELSE inputSchema.dataset,
     tables_available |-> tableNamesOf(inputSchema.tables),
     tables |-> [i \in 1..Len(inputSchema.tables) |->
                  [name |-> inputSchema.tables[i].name,
                   fields |-> [k \in 1..Len(inputSchema.tables[i].fields) |->
                                 [name |-> inputSchema.tables[i].fields[k].name,
                                  type |-> inputSchema.tables[i].fields[k].type]]]]]

compactSchema(inputSchema) ==
    IF \E i \in 1..Len(inputSchema.tables) : inputSchema.tables[i].kind = "null"
    THEN \* tableInfo.fields throws: the catch returns the names only
         [form |-> "names", dataset |-> <<>>, tables_available |-> <<>>,
          tables |-> tableNamesOf(inputSchema.tables)]
    ELSE [form |-> "compact",
          dataset |-> IF inputSchema.dataset = Undefined THEN <<>>
                      ELSE inputSchema.dataset,
          tables_available |-> tableNamesOf(inputSchema.tables),
          tables |-> [i \in 1..Len(inputSchema.tables) |->
                       LET fields == IF inputSchema.tables[i].kind = "nofields"
                                     THEN <<>>
                                     ELSE inputSchema.tables[i].fields
                           kept == slice(fields, 0, 20)
                       IN  [name |-> inputSchema.tables[i].name,
                            fields |-> [k \in 1..Len(kept) |->
                                          [name |-> kept[k].name,
                                           type |-> kept[k].type]]]]]

MSG_NO_MODEL ==
    <<"Nenhum modelo Gemini compativel encontrado. Verifique sua API Key.">>

(***************************************************************************)
(* services/gemini.js: getModelName.  A model name is a sequence of text   *)
(* parts, like a message.                                                  *)
(***************************************************************************)
CACHE_DURATION == 5 * 60 * 1000

candidateNames ==
    << <<"gemini-2.5-flash-lite">>,
       <<"models/", "gemini-2.5-flash-lite">>,
       <<"gemini-1.5-pro">>,
       <<"gemini-1.5-flash">>,
       <<"gemini-pro">>,
       <<"gemini-1">>,
       <<"gemini-1.0">>,
       <<"models/", "gemini-1.0">>,
       <<"text-bison@001">>,
       <<"text-bison-001">>,
       <<"chat-bison@001">>,
       <<"chat-bison">> >>

\* [env, ...names].filter(Boolean); the model keeps the first MaxCandidates
\* entries of the list
candidates(env) ==
    LET all == (IF env # Undefined /\ env # <<>> THEN <<env>> ELSE <<>>)
               \o candidateNames
    IN  SubSeq(all, 1, IF MaxCandidates < Len(all) THEN MaxCandidates ELSE Len(all))

\* the test of getModelName without the age of the entry
modelCacheValidAnyAge(name, ts, t) == name # Null /\ ts # NullTime /\ ts # 0

modelCacheValid(name, ts, t) ==
    name # Null /\ ts # NullTime /\ ts # 0 /\ t - ts < CACHE_DURATION

\* name.replace('models/', ''): the first occurrence goes
RECURSIVE removeFirstPart(_, _)
removeFirstPart(name, part) ==
    IF name = <<>> THEN <<>>
    ELSE IF Head(name) = part THEN Tail(name)
    ELSE <<Head(name)>> \o removeFirstPart(Tail(name), part)

stripFences(text) == trim(removeAll(removeAll(trim(text), FENCE_SQL), FENCE))

\* generateSQLQuery without the test for an empty or ERRO reply
generateSQLQueryNoSentinel(llm) ==
    IF ~llm.ok
    THEN [threw |-> TRUE, value |-> <<>>,
          message |-> MSG_GEN_PREFIX \o
                      (IF llm.message # <<>> THEN llm.message ELSE <<"desconhecido">>)]
    ELSE [threw |-> FALSE, value |-> stripFences(llm.text), message |-> <<>>]

\* generateSQLQuery testing the reply for ERRO only
generateSQLQueryNoEmptyTest(llm) ==
    LET sql == stripFences(llm.text)
    IN  IF ~llm.ok \/ startsWith(sql, ERRO)
        THEN [threw |-> TRUE, value |-> <<>>,
              message |-> MSG_GEN_PREFIX \o
                  (IF ~llm.ok THEN llm.message ELSE MSG_GEN_INVALID \o <<"<sqlQuery>">>)]
        ELSE [threw |-> FALSE, value |-> sql, message |-> <<>>]

generateSQLQuery(llm) ==
    LET sql == stripFences(llm.text)
        inner ==
            IF ~llm.ok THEN [threw |-> TRUE, message |-> llm.message]
            ELSE IF sql = <<>> \/ startsWith(sql, ERRO)
            THEN [threw |-> TRUE,
                  message |-> MSG_GEN_INVALID \o
                      (IF sql # <<>> THEN <<"<sqlQuery>">> ELSE <<"resposta vazia">>)]
            ELSE [threw |-> FALSE, message |-> <<>>]
    IN  IF inner.threw
        THEN [threw |-> TRUE, value |-> <<>>,
              message |-> MSG_GEN_PREFIX \o
                  (IF inner.message # <<>> THEN inner.message ELSE <<"desconhecido">>)]
        ELSE [threw |-> FALSE, value |-> sql, message |-> <<>>]

\* formatResponse whose catch hands the error text on
formatResponseRaw(rows, llm) ==
    IF llm.ok THEN trim(llm.text) ELSE llm.message

\* rows are kept whole in the fallback text
formatResponse(rows, llm) ==
    IF llm.ok THEN trim(llm.text) ELSE MSG_DATA_PREFIX \o rows

\* a processGeneralQuestion without its try
processGeneralQuestionRaw(llm) ==
    IF llm.ok THEN trim(llm.text) ELSE llm.message

processGeneralQuestion(llm) ==
    IF llm.ok THEN trim(llm.text) ELSE MSG_APOLOGY

\* a classifier whose catch assumes that the database is needed
requiresDatabaseQueryAssumingTrue(userQuestion, cls) ==
    IF cls.ok /\ cls.parses /\ cls.json # "null"
    THEN cls.requires_db = "true"
    ELSE TRUE

\* cls: the classification reply, [ok, parses, json, requires_db]; json is what
\* JSON.parse returned ("null" for null, whose property read throws) and
\* requires_db is "true" for the boolean true and another tag for any other
\* value of the property
requiresDatabaseQuery(userQuestion, cls) ==
    IF cls.ok /\ cls.parses /\ cls.json # "null"
    THEN cls.requires_db = "true"
    ELSE userQuestion.length > 10

(***************************************************************************)
(* services/gemini.js: the objects processMessage returns.                 *)
(***************************************************************************)
\* the general reply without its sql and data keys
generalOutcomeNoNulls(text) ==
    [success |-> TRUE, message |-> text, sql |-> Undefined, data |-> Undefined,
     type |-> "general", error |-> Undefined]

generalOutcome(text) ==
    [success |-> TRUE, message |-> text, sql |-> Null, data |-> Null,
     type |-> "general", error |-> Undefined]

refusalOutcome(sql) ==
    [success |-> FALSE, message |-> sql, sql |-> Undefined, data |-> Undefined,
     type |-> "error", error |-> Undefined]

\* the data reply with the sql key left null
dataOutcomeNoSql(text, sql, rows) ==
    [success |-> TRUE, message |-> text, sql |-> Null, data |-> rows,
     type |-> "data", error |-> Undefined]

dataOutcome(text, sql, rows) ==
    [success |-> TRUE, message |-> text, sql |-> sql, data |-> rows,
     type |-> "data", error |-> Undefined]

\* a catch that reports the error text as the message and sets no error field
catchOutcomeRaw(msg) ==
    [success |-> FALSE, message |-> msg, sql |-> Undefined,
     data |-> Undefined, type |-> "undefined", error |-> Undefined]

catchOutcome(msg) ==
    [success |-> FALSE, message |-> MSG_INTERNAL, sql |-> Undefined,
     data |-> Undefined, type |-> "undefined", error |-> msg]

NoOutcome ==
    [success |-> FALSE, message |-> <<>>, sql |-> Undefined, data |-> Undefined,
     type |-> "none", error |-> Undefined]

(***************************************************************************)
(* routes/chat.js: the schema cache.                                       *)
(***************************************************************************)
SCHEMA_CACHE_DURATION == 3600000

\* getSchema's test with the comparison turned round
cacheValidInverted(cs, ts, t) ==
    cs # Null /\ ts # NullTime /\ ts # 0 /\ t - ts > SCHEMA_CACHE_DURATION

cacheValid(cs, ts, t) ==
    cs # Null /\ ts # NullTime /\ ts # 0 /\ t - ts < SCHEMA_CACHE_DURATION

\* a catch that always rethrows
hasOldCacheNever(cs) == FALSE

\* the catch of getSchema: if (cachedSchema)
hasOldCache(cs) == cs # Null

(***************************************************************************)
(* Inputs of the model: what the clients and the collaborators may do.     *)
(* Clients 1..NumReqs send POST /message, the others send GET /schema.     *)
(***************************************************************************)
Reqs == 1..NumReqs

Callers == (NumReqs + 1)..(NumReqs + NumCallers)

Clients == 1..(NumReqs + NumCallers)

sSelect1 == <<"S", "E", "L", "E", "C", "T", " ", "1">>

sSelectStarFromT ==
    <<"S", "E", "L", "E", "C", "T", " ", "*", " ", "F", "R", "O", "M", " ", "t">>

sLowerSelect ==
    <<"s", "e", "l", "e", "c", "t", " ", "*", " ", "f", "r", "o", "m", " ", "t">>

sDropTable ==
    <<"D", "R", "O", "P", " ", "T", "A", "B", "L", "E", " ", "t">>

sSelectThenDelete ==
    <<"S", "E", "L", "E", "C", "T", " ", "*", " ", "F", "R", "O", "M", " ", "t",
      ";", " ", "D", "E", "L", "E", "T", "E", " ", "F", "R", "O", "M", " ", "t">>

sLeadingWs == <<" ", " ", " ", "s", "e", "l", "e", "c", "t", " ", "1">>

sUpdatedAt ==
    <<"S", "E", "L", "E", "C", "T", " ", "u", "p", "d", "a", "t", "e", "d", "_",
      "a", "t", " ", "F", "R", "O", "M", " ", "t">>

sErro == <<"E", "R", "R", "O", ":", " ", "x">>

sFenced ==
    <<BT, BT, BT, "s", "q", "l", "\n", "S", "E", "L", "E", "C", "T", " ", "1",
      "\n", BT, BT, BT>>

sOnlyFence == <<BT, BT, BT, "s", "q", "l", "\n", BT, BT, BT>>

\* replies of the model to the SQL-generation prompt
ReplySamples == {sSelect1, sFenced, sDropTable, sErro, sOnlyFence}

TextSamples == {<<"R", "e", "s", "p", "o", "s", "t", "a", "\n">>}

LLMFailures == {MSG_NO_MODEL, <<"[GoogleGenerativeAI Error]: fetch failed">>}

LLMResults(texts) ==
    {[ok |-> TRUE, text |-> t, message |-> <<>>] : t \in texts}
    \cup {[ok |-> FALSE, text |-> <<>>, message |-> e] : e \in LLMFailures}

\* getModelName threw: no generateContent call is made
NoModelFound == [ok |-> FALSE, text |-> <<>>, message |-> MSG_NO_MODEL]

\* what model.generateContent(userQuestion) may do
ContentResults ==
    {[ok |-> TRUE, text |-> t, message |-> <<>>] : t \in {sSelect1, sErro}}
    \cup {[ok |-> FALSE, text |-> <<>>,
           message |-> <<"[GoogleGenerativeAI Error]: fetch failed">>]}

\* what genAI.listModels() may do: throw, list no usable model, list one
ListModelsResults ==
    { [ok |-> FALSE, found |-> Null],
      [ok |-> TRUE, found |-> Null],
      [ok |-> TRUE, found |-> <<"models/", "gemini-listed">>] }

ClassifyResults ==
    {[ok |-> TRUE, parses |-> TRUE, json |-> "object", requires_db |-> v] :
        v \in {"true", "false", "'true'", "absent"}}
    \cup {[ok |-> TRUE, parses |-> TRUE, json |-> j, requires_db |-> "absent"] :
            j \in {"null", "number"}}
    \cup {[ok |-> TRUE, parses |-> FALSE, json |-> "none", requires_db |-> "absent"],
          [ok |-> FALSE, parses |-> FALSE, json |-> "none", requires_db |-> "absent"]}

\* the questions given to requiresDatabaseQuery, by their length
QuestionInputs ==
    {[kind |-> "string", length |-> n, trimmed |-> n] : n \in 1..MaxQuestion}

WarehouseResults ==
    {[ok |-> TRUE, rows |-> rs, message |-> <<>>] : rs \in {<<>>, <<"row1">>}}
    \cup {[ok |-> FALSE, rows |-> <<>>, message |-> e] :
            e \in { <<"Not found: Table", " p:d.t was not found">>,
                    <<"Syntax error", ": Unexpected identifier">>,
                    <<"Access Denied", ": Table p:d.t">>,
                    <<"socket hang up">> }}

\* failures whose text holds more than one of the patterns executeQuery
\* looks for, or the second spelling of the permission failure
WarehouseMixedFailures ==
    {[ok |-> FALSE, rows |-> <<>>, message |-> e] :
        e \in { <<"Syntax error", ": ", "Not found: Table", " near line 1">>,
                <<"Access Denied", ": ", "Syntax error", " in view">>,
                <<"Permission denied", " on ", "Not found: Table", " p:d.t">>,
                <<"Permission denied", " on table p:d.t">> }}

ExecuteInputs ==
    {[function |-> "executeQuery", sql |-> q, configured |-> c, wh |-> w] :
        q \in {sSelect1, sLowerSelect, sDropTable, sSelectThenDelete},
        c \in BOOLEAN,
        w \in WarehouseResults \cup WarehouseMixedFailures}

ListFailed == [listOk |-> FALSE, tableNames |-> <<>>, okTables |-> {}]

\* every behaviour of the metadata service over at most MaxTables tables
MetaResults ==
    {ListFailed}
    \cup {[listOk |-> TRUE, tableNames |-> SubSeq(AllTableNames, 1, n), okTables |-> ok] :
            n \in 0..MaxTables,
            ok \in SUBSET {AllTableNames[i] : i \in 1..MaxTables}}

\* three behaviours: the listing fails, every table answers, one does not
MetaSamples ==
    { ListFailed,
      [listOk |-> TRUE, tableNames |-> <<"t1", "t2">>, okTables |-> {"t1", "t2"}],
      [listOk |-> TRUE, tableNames |-> <<"t1", "t2">>, okTables |-> {"t2"}] }

\* the k-th field of a table, as getTableSchema builds it; its name is k
fieldOf(k) ==
    [name |-> k, type |-> IF k % 2 = 0 THEN "STRING" ELSE "INTEGER",
     mode |-> "NULLABLE", description |-> ""]

\* numbers of fields of a table: around the limit of 20, up to MaxFields
FieldCounts == {0, 1, 19, 20} \cup (21..MaxFields)

TableInputs(name) ==
    {[name |-> name, kind |-> "object", fields |-> [k \in 1..n |-> fieldOf(k)]] :
        n \in FieldCounts}
    \cup {[name |-> name, kind |-> "nofields", fields |-> <<>>],
          [name |-> name, kind |-> "null", fields |-> <<>>]}

RECURSIVE TableSeqs(_)
TableSeqs(n) ==
    IF n = 0 THEN {<<>>}
    ELSE LET shorter == TableSeqs(n - 1)
         IN  shorter \cup {Append(ts, t) : ts \in {x \in shorter : Len(x) = n - 1},
                                           t \in TableInputs(AllTableNames[n])}

NoSchema == [dataset |-> Undefined, tables |-> <<>>]

\* every schema of at most MaxTables tables
SchemaInputs ==
    {[dataset |-> d, tables |-> ts] :
        d \in {Undefined, <<"dados_formacao">>}, ts \in TableSeqs(MaxTables)}

NoCompact ==
    [form |-> "none", dataset |-> <<>>, tables_available |-> <<>>, tables |-> <<>>]

MessageSamples ==
    { [kind |-> "undefined", length |-> 0, trimmed |-> 0],
      [kind |-> "number", length |-> 0, trimmed |-> 0],
      [kind |-> "string", length |-> 0, trimmed |-> 0],
      [kind |-> "string", length |-> 3, trimmed |-> 0],
      [kind |-> "string", length |-> 10, trimmed |-> 10],
      [kind |-> "string", length |-> 11, trimmed |-> 11],
      [kind |-> "string", length |-> 501, trimmed |-> 501] }

NoMessage == [kind |-> "none", length |-> 0, trimmed |-> 0]

(***************************************************************************)
(* public/js/chat.js: the texts the widget shows, what the page may type   *)
(* or pass to sendMessage, and what fetch and response.json() may do.      *)
(***************************************************************************)
Sends == 1..NumSends

MSG_CONNECTION == <<"Erro de conexao. Verifique se o servidor esta rodando.">>

MSG_WIDGET_DEFAULT == <<"Erro ao processar sua mensagem">>

MSG_ROUTE_500 == <<"Erro ao processar sua mensagem. Tente novamente.">>

WidgetTexts == {<<>>, <<" ", " ">>, <<"o", "i">>}

\* the bodies the server answers with, as far as the widget reads them
WidgetBodies ==
    { [success |-> TRUE, message |-> <<"Ola!">>, error |-> Undefined],
      [success |-> FALSE, message |-> MSG_INTERNAL,
       error |-> <<"[GoogleGenerativeAI Error]: fetch failed">>],
      [success |-> FALSE, message |-> <<"socket hang up">>, error |-> MSG_ROUTE_500],
      [success |-> FALSE, message |-> sErro, error |-> Undefined] }

\* fetch resolves with a response or rejects
FetchResults == {"response", "rejects"}

\* response.json() resolves with a body or rejects
JsonResults ==
    {[parsed |-> TRUE, data |-> d] : d \in WidgetBodies}
    \cup {[parsed |-> FALSE,
           data |-> [success |-> FALSE, message |-> Undefined, error |-> Undefined]]}

InitWidget ==
    /\ isProcessing = FALSE
    /\ sendButtonDisabled = FALSE
    /\ messageInputDisabled = FALSE
    /\ messageInputValue = <<>>
    /\ suggestionsDisplay = <<>>
    /\ typingIndicators = 0
    /\ chatMessages = <<>>
    /\ wpc = [c \in Sends |-> "idle"]
    /\ fetches = [c \in Sends |-> 0]

(***************************************************************************)
(* Initial state: the modules are loaded, no request has arrived.          *)
(***************************************************************************)
InitProgram ==
    /\ InitWidget
    /\ generalCaught = [r \in Clients |-> FALSE]
    /\ clock = 1
    /\ ticks = 0
    /\ cachedSchema = Null
    /\ schemaLastUpdated = NullTime
    /\ credentialsConfigured \in BOOLEAN
    /\ pc = [r \in Clients |-> "idle"]
    /\ route = [r \in Clients |-> "none"]
    /\ message = [r \in Clients |-> NoMessage]
    /\ now = [r \in Clients |-> 0]
    /\ schema = [r \in Clients |-> Null]
    /\ needsDatabase = [r \in Clients |-> "unset"]
    /\ reply = [r \in Clients |-> Undefined]
    /\ sqlQuery = [r \in Clients |-> Undefined]
    /\ queryResults = [r \in Clients |-> Undefined]
    /\ outcome = [r \in Clients |-> NoOutcome]
    /\ status = [r \in Clients |-> 0]
    /\ called = [r \in Clients |-> {}]
    /\ raised = [r \in Clients |-> Undefined]
    /\ whError = [r \in Clients |-> Undefined]
    /\ queried = {}
    /\ cachedModelName = Null
    /\ cacheTimestamp = NullTime
    /\ candidateIx = [r \in Clients |-> 0]
    /\ modelName = [r \in Clients |-> Null]
    /\ llmLog = [r \in Clients |-> <<>>]

NoResult == [threw |-> FALSE, value |-> <<>>, message |-> <<>>]

NoLLM == [ok |-> FALSE, text |-> <<>>, message |-> <<>>]

NoArgs == [function |-> "none"]

InitPure ==
    /\ fin = NoArgs
    /\ fout = NoResult
    /\ vin = <<>>
    /\ vout = FALSE
    /\ gllm = NoLLM
    /\ gout = NoResult
    /\ vmeta = ListFailed
    /\ dsout = NoResult
    /\ cin = NoSchema
    /\ cout = NoCompact
    /\ applied = {}

\* GEMINI_MODEL is not set, GEMINI_API_KEY is
Init ==
    /\ InitProgram
    /\ InitPure
    /\ envModel = Undefined
    /\ apiKeyConfigured = TRUE

(***************************************************************************)
(* routes/chat.js: getSchema, entered by route rt for client r.  On a      *)
(* valid cache it returns at once and the route goes on; otherwise it is   *)
(* suspended at the await of getDatasetSchema.                             *)
(***************************************************************************)
\* the continuation of route rt once getSchema returned s; `now` is gone.
\* marks: what getSchema went through
SchemaReturned(r, rt, s, marks) ==
    /\ schema' = [schema EXCEPT ![r] = s]
    /\ now' = [now EXCEPT ![r] = 0]
    /\ IF rt = "message"
       THEN \* processMessage runs up to the await in requiresDatabaseQuery
            /\ pc' = [pc EXCEPT ![r] = "classify"]
            /\ status' = status
            /\ called' = [called EXCEPT ![r] = @ \cup marks \cup
                            {"getSchema", "processMessage", "requiresDatabaseQuery"}]
       ELSE \* GET /schema answers with the schema
            /\ pc' = [pc EXCEPT ![r] = "done"]
            /\ status' = [status EXCEPT ![r] = 200]
            /\ called' = [called EXCEPT ![r] = @ \cup marks \cup {"getSchema"}]

getSchemaEnter(r, rt) ==
    IF cacheValid(cachedSchema, schemaLastUpdated, clock)
    THEN SchemaReturned(r, rt, cachedSchema, {})
    ELSE /\ now' = [now EXCEPT ![r] = clock]
         /\ pc' = [pc EXCEPT ![r] = "fetching"]
         /\ called' = [called EXCEPT ![r] = @ \cup {"getSchema", "getDatasetSchema"}]
         /\ UNCHANGED <<schema, status>>

\* a getSchema that reads the clock again when its fetch is over
GetSchemaResumeStampAtEnd(r, meta) ==
    /\ pc[r] = "fetching"
    /\ LET res == getDatasetSchema(meta, credentialsConfigured)
       IN  IF ~res.threw
           THEN /\ cachedSchema' = res.value
                /\ schemaLastUpdated' = clock
                /\ SchemaReturned(r, route[r], res.value, {})
           ELSE IF hasOldCache(cachedSchema)
           THEN /\ UNCHANGED cacheVars
                /\ SchemaReturned(r, route[r], cachedSchema, {"getDatasetSchema threw"})
           ELSE \* getSchema rethrows; both routes answer 500 in their catch
                /\ UNCHANGED <<cacheVars, schema>>
                /\ called' = [called EXCEPT ![r] = @ \cup {"getDatasetSchema threw",
                                                         "getSchema threw"}]
                /\ now' = [now EXCEPT ![r] = 0]
                /\ pc' = [pc EXCEPT ![r] = "done"]
                /\ status' = [status EXCEPT ![r] = 500]
    /\ UNCHANGED <<pureVars, modelVars, whError, clock, ticks, route, message,
                   needsDatabase, reply, sqlQuery, queryResults, outcome,
                   raised, credentialsConfigured, apiKeyConfigured, queried,
                   generalCaught, widgetVars>>

\* the await of getDatasetSchema is over: meta is what the warehouse did
GetSchemaResume(r, meta) ==
    /\ pc[r] = "fetching"
    /\ LET res == getDatasetSchema(meta, credentialsConfigured)
       IN  IF ~res.threw
           THEN /\ cachedSchema' = res.value
                /\ schemaLastUpdated' = now[r]
                /\ SchemaReturned(r, route[r], res.value, {})
           ELSE IF hasOldCache(cachedSchema)
           THEN /\ UNCHANGED cacheVars
                /\ SchemaReturned(r, route[r], cachedSchema, {"getDatasetSchema threw"})
           ELSE \* getSchema rethrows; both routes answer 500 in their catch
                /\ UNCHANGED <<cacheVars, schema>>
                /\ called' = [called EXCEPT ![r] = @ \cup {"getDatasetSchema threw",
                                                         "getSchema threw"}]
                /\ now' = [now EXCEPT ![r] = 0]
                /\ pc' = [pc EXCEPT ![r] = "done"]
                /\ status' = [status EXCEPT ![r] = 500]
    /\ UNCHANGED <<pureVars, modelVars, whError, clock, ticks, route, message,
                   needsDatabase, reply, sqlQuery, queryResults, outcome,
                   raised, credentialsConfigured, apiKeyConfigured, queried,
                   generalCaught, widgetVars>>

(***************************************************************************)
(* routes/chat.js: POST /message, GET /schema, POST /clear-cache.          *)
(***************************************************************************)
\* the input test without message.trim()
invalidMessageNoTrim(m) == m.kind # "string" \/ m.length = 0

invalidMessage(m) == m.kind # "string" \/ m.length = 0 \/ m.trimmed = 0

PostMessage(r, m) ==
    /\ pc[r] = "idle"
    /\ route' = [route EXCEPT ![r] = "message"]
    /\ message' = [message EXCEPT ![r] = m]
    /\ IF invalidMessage(m) \/ m.length > 500
       THEN /\ pc' = [pc EXCEPT ![r] = "done"]
            /\ status' = [status EXCEPT ![r] = 400]
            /\ UNCHANGED <<now, schema, called>>
       ELSE getSchemaEnter(r, "message")
    /\ UNCHANGED <<pureVars, modelVars, whError, clock, ticks, cacheVars,
                   needsDatabase, reply, sqlQuery, queryResults, outcome,
                   raised, credentialsConfigured, apiKeyConfigured, queried,
                   generalCaught, widgetVars>>

GetSchemaRoute(r) ==
    /\ pc[r] = "idle"
    /\ route' = [route EXCEPT ![r] = "schema"]
    /\ getSchemaEnter(r, "schema")
    /\ UNCHANGED <<pureVars, modelVars, whError, clock, ticks, cacheVars,
                   message, needsDatabase, reply, sqlQuery, queryResults,
                   outcome, raised, credentialsConfigured, apiKeyConfigured,
                   queried, generalCaught, widgetVars>>

\* a clear-cache that forgets the schema and keeps its timestamp
ClearCacheSchemaOnly ==
    /\ cachedSchema' = Null
    /\ schemaLastUpdated' = schemaLastUpdated
    /\ UNCHANGED <<pureVars, modelVars, clock, ticks, reqVars,
                   credentialsConfigured, apiKeyConfigured, queried,
                   widgetVars>>

\* a clear-cache that forgets the timestamp and keeps the schema
ClearCacheTimestampOnly ==
    /\ cachedSchema' = cachedSchema
    /\ schemaLastUpdated' = NullTime
    /\ UNCHANGED <<pureVars, modelVars, clock, ticks, reqVars,
                   credentialsConfigured, apiKeyConfigured, queried,
                   widgetVars>>

ClearCache ==
    /\ cachedSchema' = Null
    /\ schemaLastUpdated' = NullTime
    /\ UNCHANGED <<pureVars, modelVars, clock, ticks, reqVars,
                   credentialsConfigured, apiKeyConfigured, queried,
                   widgetVars>>

\* time passes: half the life of a cached schema
Tick ==
    /\ ticks < MaxTicks
    /\ ticks' = ticks + 1
    /\ clock' = clock + (SCHEMA_CACHE_DURATION \div 2)
    /\ UNCHANGED <<pureVars, modelVars, cacheVars, reqVars,
                   credentialsConfigured, apiKeyConfigured, queried,
                   widgetVars>>

\* the client has its answer and may send another request
NextRequest(r) ==
    /\ pc[r] = "done"
    /\ pc' = [pc EXCEPT ![r] = "idle"]
    /\ route' = [route EXCEPT ![r] = "none"]
    /\ message' = [message EXCEPT ![r] = NoMessage]
    /\ schema' = [schema EXCEPT ![r] = Null]
    /\ needsDatabase' = [needsDatabase EXCEPT ![r] = "unset"]
    /\ reply' = [reply EXCEPT ![r] = Undefined]
    /\ sqlQuery' = [sqlQuery EXCEPT ![r] = Undefined]
    /\ queryResults' = [queryResults EXCEPT ![r] = Undefined]
    /\ outcome' = [outcome EXCEPT ![r] = NoOutcome]
    /\ status' = [status EXCEPT ![r] = 0]
    /\ called' = [called EXCEPT ![r] = {}]
    /\ raised' = [raised EXCEPT ![r] = Undefined]
    /\ whError' = [whError EXCEPT ![r] = Undefined]
    /\ candidateIx' = [candidateIx EXCEPT ![r] = 0]
    /\ modelName' = [modelName EXCEPT ![r] = Null]
    /\ llmLog' = [llmLog EXCEPT ![r] = <<>>]
    /\ generalCaught' = [generalCaught EXCEPT ![r] = FALSE]
    /\ UNCHANGED <<pureVars, cachedModelName, cacheTimestamp, envModel, clock,
                   ticks, cacheVars, now, credentialsConfigured,
                   apiKeyConfigured, queried, widgetVars>>

(***************************************************************************)
(* services/gemini.js: processMessage, one action per await.               *)
(***************************************************************************)
\* processMessage returns o; the route sends it with res.json and the
\* handler's locals are gone
Finish(r, o) ==
    /\ outcome' = [outcome EXCEPT ![r] = o]
    /\ message' = [message EXCEPT ![r] = NoMessage]
    /\ status' = [status EXCEPT ![r] = 200]
    /\ pc' = [pc EXCEPT ![r] = "done"]

\* an exception reaches the catch of processMessage
Caught(r, msg) ==
    /\ raised' = [raised EXCEPT ![r] = msg]
    /\ Finish(r, catchOutcome(msg))

\* requiresDatabaseQuery returns; the next LLM user is called with the
\* question (and the schema), and the schema is not read again afterwards
ClassifyResume(r, cls) ==
    /\ pc[r] = "classify"
    /\ LET needs == requiresDatabaseQuery(message[r], cls)
       IN  /\ needsDatabase' = [needsDatabase EXCEPT ![r] =
                                  IF needs THEN "true" ELSE "false"]
           /\ IF ~needs
              THEN /\ pc' = [pc EXCEPT ![r] = "general"]
                   /\ called' = [called EXCEPT ![r] = @ \cup {"processGeneralQuestion"}]
              ELSE /\ pc' = [pc EXCEPT ![r] = "generate"]
                   /\ called' = [called EXCEPT ![r] = @ \cup {"generateSQLQuery"}]
    /\ schema' = [schema EXCEPT ![r] = Null]
    /\ UNCHANGED <<pureVars, modelVars, whError, clock, ticks, cacheVars,
                   route, message, now, reply, sqlQuery, queryResults,
                   outcome, status, raised, credentialsConfigured,
                   apiKeyConfigured, queried, generalCaught, widgetVars>>

GeneralResume(r, llm) ==
    /\ pc[r] = "general"
    /\ Finish(r, generalOutcome(processGeneralQuestion(llm)))
    /\ generalCaught' = [generalCaught EXCEPT ![r] = ~llm.ok]
    /\ UNCHANGED <<pureVars, modelVars, whError, clock, ticks, cacheVars,
                   route, now, schema, needsDatabase, reply, sqlQuery,
                   queryResults, called, raised, credentialsConfigured,
                   apiKeyConfigured, queried, widgetVars>>

\* a processMessage that asks for another query when executeQuery throws
\* before its await
GenerateResumeRetrying(r, llm) ==
    /\ pc[r] = "generate"
    /\ reply' = [reply EXCEPT ![r] = IF llm.ok THEN llm.text ELSE Undefined]
    /\ LET gen == generateSQLQuery(llm)
           beg == executeQueryBegin(gen.value, credentialsConfigured)
       IN  IF gen.threw
           THEN /\ Caught(r, gen.message)
                /\ UNCHANGED <<sqlQuery, called, queried>>
           ELSE IF startsWith(gen.value, ERRO)
           THEN /\ Finish(r, refusalOutcome(gen.value))
                /\ sqlQuery' = [sqlQuery EXCEPT ![r] = gen.value]
                /\ UNCHANGED <<called, queried, raised>>
           ELSE /\ sqlQuery' = [sqlQuery EXCEPT ![r] = gen.value]
                /\ IF beg.threw
                   THEN /\ pc' = [pc EXCEPT ![r] = "generate"]
                        /\ called' = [called EXCEPT ![r] = @ \cup {"executeQuery"}]
                        /\ queried' = queried
                        /\ UNCHANGED <<outcome, status, raised, message>>
                   ELSE /\ pc' = [pc EXCEPT ![r] = "execute"]
                        /\ called' = [called EXCEPT ![r] =
                                        @ \cup {"executeQuery", "bigquery.query"}]
                        /\ queried' = queried \cup {gen.value}
                        /\ UNCHANGED <<outcome, status, raised, message>>
    /\ UNCHANGED <<pureVars, modelVars, whError, clock, ticks, cacheVars,
                   route, now, schema, needsDatabase, queryResults,
                   credentialsConfigured, apiKeyConfigured, generalCaught,
                   widgetVars>>

\* generateSQLQuery returns or throws; on a return executeQueryFunc is called
\* and runs up to its await
GenerateResume(r, llm) ==
    /\ pc[r] = "generate"
    /\ reply' = [reply EXCEPT ![r] = IF llm.ok THEN llm.text ELSE Undefined]
    /\ LET gen == generateSQLQuery(llm)
           beg == executeQueryBegin(gen.value, credentialsConfigured)
       IN  IF gen.threw
           THEN /\ Caught(r, gen.message)
                /\ UNCHANGED <<sqlQuery, called, queried>>
           ELSE IF startsWith(gen.value, ERRO)
           THEN /\ Finish(r, refusalOutcome(gen.value))
                /\ sqlQuery' = [sqlQuery EXCEPT ![r] = gen.value]
                /\ UNCHANGED <<called, queried, raised>>
           ELSE /\ sqlQuery' = [sqlQuery EXCEPT ![r] = gen.value]
                /\ IF beg.threw
                   THEN /\ Caught(r, beg.message)
                        /\ called' = [called EXCEPT ![r] = @ \cup {"executeQuery"}]
                        /\ queried' = queried
                   ELSE /\ pc' = [pc EXCEPT ![r] = "execute"]
                        /\ called' = [called EXCEPT ![r] =
                                        @ \cup {"executeQuery", "bigquery.query"}]
                        /\ queried' = queried \cup {gen.value}
                        /\ UNCHANGED <<outcome, status, raised, message>>
    /\ UNCHANGED <<pureVars, modelVars, whError, clock, ticks, cacheVars,
                   route, now, schema, needsDatabase, queryResults,
                   credentialsConfigured, apiKeyConfigured, generalCaught,
                   widgetVars>>

ExecuteResume(r, wh) ==
    /\ pc[r] = "execute"
    /\ whError' = [whError EXCEPT ![r] = IF wh.ok THEN Undefined ELSE wh.message]
    /\ LET res == executeQueryEnd(wh)
       IN  IF res.threw
           THEN /\ Caught(r, res.message)
                /\ UNCHANGED <<queryResults, called>>
           ELSE /\ queryResults' = [queryResults EXCEPT ![r] = res.value]
                /\ pc' = [pc EXCEPT ![r] = "format"]
                /\ called' = [called EXCEPT ![r] = @ \cup {"formatResponse"}]
                /\ UNCHANGED <<outcome, status, raised, message>>
    /\ UNCHANGED <<pureVars, modelVars, clock, ticks, cacheVars, route, now,
                   schema, needsDatabase, reply, sqlQuery,
                   credentialsConfigured, apiKeyConfigured, queried,
                   generalCaught, widgetVars>>

FormatResume(r, llm) ==
    /\ pc[r] = "format"
    /\ Finish(r, dataOutcome(formatResponse(queryResults[r], llm), sqlQuery[r],
                             queryResults[r]))
    /\ UNCHANGED <<pureVars, modelVars, whError, clock, ticks, cacheVars,
                   route, now, schema, needsDatabase, reply, sqlQuery,
                   queryResults, called, raised, credentialsConfigured,
                   apiKeyConfigured, queried, generalCaught, widgetVars>>

(***************************************************************************)
(* services/gemini.js: generateSQLQuery with getModelName, one action per  *)
(* await.                                                                  *)
(***************************************************************************)
\* getModelName returns name; generateSQLQuery builds the prompt and is
\* suspended at the await of model.generateContent(userQuestion)
ModelReturned(r, name) ==
    /\ modelName' = [modelName EXCEPT ![r] = name]
    /\ candidateIx' = [candidateIx EXCEPT ![r] = 0]
    /\ llmLog' = [llmLog EXCEPT ![r] = Append(@, <<"generateContent">>)]
    /\ pc' = [pc EXCEPT ![r] = "content"]
    /\ UNCHANGED <<reply, sqlQuery, raised>>

\* generateSQLQuery ends: llm is what its use of the LLM did
GenerateReturned(r, llm) ==
    /\ LET gen == generateSQLQuery(llm)
       IN  /\ sqlQuery' = [sqlQuery EXCEPT ![r] =
                             IF gen.threw THEN Undefined ELSE gen.value]
           /\ raised' = [raised EXCEPT ![r] =
                           IF gen.threw THEN gen.message ELSE Undefined]
    /\ reply' = [reply EXCEPT ![r] = IF llm.ok THEN llm.text ELSE Undefined]
    /\ candidateIx' = [candidateIx EXCEPT ![r] = 0]
    /\ pc' = [pc EXCEPT ![r] = "done"]
    /\ UNCHANGED <<modelName, llmLog>>

\* generateSQLQuery is called and runs up to its first await
GenerateCall(r) ==
    /\ pc[r] = "idle"
    /\ called' = [called EXCEPT ![r] = {"generateSQLQuery", "getModelName"}]
    /\ IF modelCacheValid(cachedModelName, cacheTimestamp, clock)
       THEN ModelReturned(r, cachedModelName)
       ELSE /\ pc' = [pc EXCEPT ![r] = "probing"]
            /\ candidateIx' = [candidateIx EXCEPT ![r] = 1]
            /\ llmLog' = [llmLog EXCEPT ![r] = <<candidates(envModel)[1]>>]
            /\ UNCHANGED <<modelName, reply, sqlQuery, raised>>
    /\ UNCHANGED <<pureVars, clock, ticks, cacheVars, cachedModelName,
                   cacheTimestamp, envModel, route, message, now, schema,
                   needsDatabase, queryResults, outcome, status, whError,
                   credentialsConfigured, apiKeyConfigured, queried,
                   generalCaught, widgetVars>>

\* the probe of the current candidate is over; hasList: genAI.listModels is
\* a function.  The service answers no request made with the empty key.
ProbeResume(r, ok, hasList) ==
    /\ pc[r] = "probing"
    /\ ok => apiKeyConfigured
    /\ LET cs == candidates(envModel)
           ix == candidateIx[r]
       IN  IF ok
           THEN /\ cachedModelName' = cs[ix]
                /\ cacheTimestamp' = clock
                /\ ModelReturned(r, cs[ix])
           ELSE IF ix < Len(cs)
           THEN /\ candidateIx' = [candidateIx EXCEPT ![r] = ix + 1]
                /\ llmLog' = [llmLog EXCEPT ![r] = Append(@, cs[ix + 1])]
                /\ UNCHANGED <<cachedModelName, cacheTimestamp, modelName, pc,
                               reply, sqlQuery, raised>>
           ELSE IF hasList
           THEN /\ pc' = [pc EXCEPT ![r] = "listing"]
                /\ candidateIx' = [candidateIx EXCEPT ![r] = 0]
                /\ llmLog' = [llmLog EXCEPT ![r] = Append(@, <<"listModels">>)]
                /\ UNCHANGED <<cachedModelName, cacheTimestamp, modelName,
                               reply, sqlQuery, raised>>
           ELSE /\ GenerateReturned(r, NoModelFound)
                /\ UNCHANGED <<cachedModelName, cacheTimestamp>>
    /\ UNCHANGED <<pureVars, clock, ticks, cacheVars, envModel, route,
                   message, now, schema, needsDatabase, queryResults, outcome,
                   status, called, whError, credentialsConfigured,
                   apiKeyConfigured, queried, generalCaught, widgetVars>>

ListModelsResume(r, lm) ==
    /\ pc[r] = "listing"
    /\ lm.ok => apiKeyConfigured
    /\ IF lm.ok /\ lm.found # Null
       THEN /\ cachedModelName' = removeFirstPart(lm.found, "models/")
            /\ cacheTimestamp' = clock
            /\ ModelReturned(r, removeFirstPart(lm.found, "models/"))
       ELSE /\ GenerateReturned(r, NoModelFound)
            /\ UNCHANGED <<cachedModelName, cacheTimestamp>>
    /\ UNCHANGED <<pureVars, clock, ticks, cacheVars, envModel, route,
                   message, now, schema, needsDatabase, queryResults, outcome,
                   status, called, whError, credentialsConfigured,
                   apiKeyConfigured, queried, generalCaught, widgetVars>>

\* generateContent with the user's question that fails once more after a
\* first failure
ContentResumeRetry(r, gc) ==
    /\ pc[r] = "content"
    /\ gc.ok => apiKeyConfigured
    /\ IF ~gc.ok /\ Len(llmLog[r]) < 4
       THEN /\ llmLog' = [llmLog EXCEPT ![r] = Append(@, <<"generateContent">>)]
            /\ UNCHANGED <<modelName, candidateIx, pc, reply, sqlQuery, raised>>
       ELSE GenerateReturned(r, gc)
    /\ UNCHANGED <<pureVars, clock, ticks, cacheVars, cachedModelName,
                   cacheTimestamp, envModel, route, message, now, schema,
                   needsDatabase, queryResults, outcome, status, called,
                   whError, credentialsConfigured, apiKeyConfigured, queried,
                   generalCaught, widgetVars>>

ContentResume(r, gc) ==
    /\ pc[r] = "content"
    /\ gc.ok => apiKeyConfigured
    /\ GenerateReturned(r, gc)
    /\ UNCHANGED <<pureVars, clock, ticks, cacheVars, cachedModelName,
                   cacheTimestamp, envModel, route, message, now, schema,
                   needsDatabase, queryResults, outcome, status, called,
                   whError, credentialsConfigured, apiKeyConfigured, queried,
                   generalCaught, widgetVars>>

\* time passes: half the life of a cached model name
TickModel ==
    /\ ticks < MaxTicks
    /\ ticks' = ticks + 1
    /\ clock' = clock + (CACHE_DURATION \div 2)
    /\ UNCHANGED <<pureVars, modelVars, cacheVars, reqVars,
                   credentialsConfigured, apiKeyConfigured, queried,
                   widgetVars>>

(***************************************************************************)
(* Spec: the clients of POST /message, with the cache cleared and the      *)
(* clock advanced at any moment.                                           *)
(***************************************************************************)
Next ==
    \/ \E r \in Reqs, m \in MessageSamples : PostMessage(r, m)
    \/ \E r \in Reqs, meta \in MetaSamples : GetSchemaResume(r, meta)
    \/ \E r \in Reqs, cls \in ClassifyResults : ClassifyResume(r, cls)
    \/ \E r \in Reqs, llm \in LLMResults(TextSamples) : GeneralResume(r, llm)
    \/ \E r \in Reqs, llm \in LLMResults(ReplySamples) : GenerateResume(r, llm)
    \/ \E r \in Reqs, wh \in WarehouseResults : ExecuteResume(r, wh)
    \/ \E r \in Reqs, llm \in LLMResults(TextSamples) : FormatResume(r, llm)
    \/ \E r \in Reqs : NextRequest(r)
    \/ ClearCache
    \/ Tick

Spec == Init /\ [][Next]_vars

(***************************************************************************)
(* SpecCache: the clients of GET /schema, overlapping at will, with the    *)
(* cache cleared and the clock advanced at any moment.                     *)
(***************************************************************************)
NextCache ==
    \/ \E r \in Callers : GetSchemaRoute(r)
    \/ \E r \in Callers, meta \in MetaSamples : GetSchemaResume(r, meta)
    \/ \E r \in Callers : NextRequest(r)
    \/ ClearCache
    \/ Tick

SpecCache == Init /\ [][NextCache]_vars

(***************************************************************************)
(* SpecModel: callers of generateSQLQuery, overlapping at will, with the   *)
(* clock advanced at any moment and GEMINI_MODEL and GEMINI_API_KEY set or *)
(* not.                                                                    *)
(***************************************************************************)
InitModel ==
    /\ InitProgram
    /\ InitPure
    /\ envModel \in {Undefined, <<"gemini-custom">>}
    /\ apiKeyConfigured \in BOOLEAN

NextModel ==
    \/ \E r \in Reqs : GenerateCall(r)
    \/ \E r \in Reqs, ok \in BOOLEAN, hasList \in BOOLEAN : ProbeResume(r, ok, hasList)
    \/ \E r \in Reqs, lm \in ListModelsResults : ListModelsResume(r, lm)
    \/ \E r \in Reqs, gc \in ContentResults : ContentResume(r, gc)
    \/ \E r \in Reqs : NextRequest(r)
    \/ TickModel

SpecModel == InitModel /\ [][NextModel]_vars

(***************************************************************************)
(* SpecPure: validateQuery, generateSQLQuery and getDatasetSchema applied  *)
(* to every input of a bounded set.  A string input is the concatenation   *)
(* of at most MaxFrags fragments, or one of the samples.                   *)
(***************************************************************************)
Frags ==
    { SELECT,
      <<"s", "e", "l", "e", "c", "t">>,
      <<" ">>,
      <<"\n">>,
      <<"x">>,
      FENCE,
      FENCE_SQL,
      ERRO,
      <<"D", "R">>,
      <<"O", "P">>,
      <<"u", "p", "d", "a", "t", "e", "d", "_", "a", "t">>,
      <<"D", "e", "l", "e", "t", "e">> }

RECURSIVE FragStrings(_)
FragStrings(n) ==
    IF n = 0 THEN {<<>>}
    ELSE LET shorter == FragStrings(n - 1)
         IN  shorter \cup {s \o f : s \in shorter, f \in Frags}

StringSamples ==
    {sSelect1, sSelectStarFromT, sLowerSelect, sDropTable, sSelectThenDelete,
     sLeadingWs, sUpdatedAt, sErro, sFenced, sOnlyFence}
    \cup {SELECT \o <<" ">> \o forbiddenCommands[i] : i \in 1..Len(forbiddenCommands)}

StringInputs == FragStrings(MaxFrags) \cup StringSamples

InitStrings ==
    /\ InitProgram
    /\ envModel = Undefined
    /\ apiKeyConfigured = TRUE
    /\ fin = NoArgs
    /\ fout = NoResult
    /\ vin \in StringInputs
    /\ vmeta \in MetaResults
    /\ (vin = <<>> \/ vmeta = ListFailed)
    /\ cin = NoSchema
    /\ cout = NoCompact
    /\ vout = FALSE
    /\ gllm = NoLLM
    /\ gout = NoResult
    /\ dsout = NoResult
    /\ applied = {}

ApplyValidate ==
    /\ "validateQuery" \notin applied
    /\ vout' = validateQuery(vin)
    /\ applied' = applied \cup {"validateQuery"}
    /\ UNCHANGED <<vin, gllm, gout, vmeta, dsout, cin, cout, clock, ticks,
                   cacheVars, reqVars, modelVars, credentialsConfigured,
                   apiKeyConfigured, queried, fin, fout, widgetVars>>

ApplyGenerate(llm) ==
    /\ "generateSQLQuery" \notin applied
    /\ gllm' = llm
    /\ gout' = generateSQLQuery(llm)
    /\ applied' = applied \cup {"generateSQLQuery"}
    /\ UNCHANGED <<vin, vout, vmeta, dsout, cin, cout, clock, ticks,
                   cacheVars, reqVars, modelVars, credentialsConfigured,
                   apiKeyConfigured, queried, fin, fout, widgetVars>>

ApplyGetDatasetSchema ==
    /\ "getDatasetSchema" \notin applied
    /\ dsout' = getDatasetSchema(vmeta, credentialsConfigured)
    /\ applied' = applied \cup {"getDatasetSchema"}
    /\ UNCHANGED <<vin, vout, gllm, gout, vmeta, cin, cout, clock, ticks,
                   cacheVars, reqVars, modelVars, credentialsConfigured,
                   apiKeyConfigured, queried, fin, fout, widgetVars>>

NextPure ==
    \/ ApplyValidate
    \/ \E llm \in LLMResults({vin}) : ApplyGenerate(llm)
    \/ ApplyGetDatasetSchema

SpecPure == InitStrings /\ [][NextPure]_vars

(***************************************************************************)
(* SpecCompact: compactSchema applied to every schema of a bounded set.    *)
(***************************************************************************)
InitSchemas ==
    /\ InitProgram
    /\ envModel = Undefined
    /\ apiKeyConfigured = TRUE
    /\ fin = NoArgs
    /\ fout = NoResult
    /\ cin \in SchemaInputs
    /\ cout = NoCompact
    /\ vin = <<>>
    /\ vout = FALSE
    /\ gllm = NoLLM
    /\ gout = NoResult
    /\ vmeta = ListFailed
    /\ dsout = NoResult
    /\ applied = {}

ApplyCompactSchema ==
    /\ "compactSchema" \notin applied
    /\ cout' = compactSchema(cin)
    /\ applied' = applied \cup {"compactSchema"}
    /\ UNCHANGED <<vin, vout, gllm, gout, vmeta, dsout, cin, clock, ticks,
                   cacheVars, reqVars, modelVars, credentialsConfigured,
                   apiKeyConfigured, queried, fin, fout, widgetVars>>

NextCompact == ApplyCompactSchema

SpecCompact == InitSchemas /\ [][NextCompact]_vars

(***************************************************************************)
(* SpecClassify: requiresDatabaseQuery applied to every question length up *)
(* to MaxQuestion and every behaviour of the classification call.          *)
(***************************************************************************)
InitHarness ==
    /\ InitProgram
    /\ envModel = Undefined
    /\ apiKeyConfigured = TRUE
    /\ vin = <<>>
    /\ vout = FALSE
    /\ gllm = NoLLM
    /\ gout = NoResult
    /\ vmeta = ListFailed
    /\ dsout = NoResult
    /\ cin = NoSchema
    /\ cout = NoCompact
    /\ applied = {}

InitClassify ==
    /\ InitHarness
    /\ fin \in {[function |-> "requiresDatabaseQuery", userQuestion |-> q, cls |-> c] :
                    q \in QuestionInputs, c \in ClassifyResults}
    /\ fout = NoResult

ApplyRequiresDatabaseQuery ==
    /\ "requiresDatabaseQuery" \notin applied
    /\ fout' = [threw |-> FALSE,
                value |-> requiresDatabaseQuery(fin.userQuestion, fin.cls),
                message |-> <<>>]
    /\ applied' = applied \cup {"requiresDatabaseQuery"}
    /\ UNCHANGED <<vin, vout, gllm, gout, vmeta, dsout, cin, cout, fin, clock,
                   ticks, cacheVars, reqVars, modelVars, credentialsConfigured,
                   apiKeyConfigured, queried, widgetVars>>

NextClassify == ApplyRequiresDatabaseQuery

SpecClassify == InitClassify /\ [][NextClassify]_vars

(***************************************************************************)
(* SpecExecute: executeQuery applied to every input of ExecuteInputs.      *)
(***************************************************************************)
InitExecute ==
    /\ InitHarness
    /\ fin \in ExecuteInputs
    /\ fout = NoResult

ApplyExecuteQuery ==
    /\ "executeQuery" \notin applied
    /\ fout' = executeQuery(fin.sql, fin.configured, fin.wh)
    /\ applied' = applied \cup {"executeQuery"}
    /\ UNCHANGED <<vin, vout, gllm, gout, vmeta, dsout, cin, cout, fin, clock,
                   ticks, cacheVars, reqVars, modelVars, credentialsConfigured,
                   apiKeyConfigured, queried, widgetVars>>

NextExecute == ApplyExecuteQuery

SpecExecute == InitExecute /\ [][NextExecute]_vars

(***************************************************************************)
(* SpecWidget: the chat page.  sendMessage is called at any moment, also   *)
(* while an earlier call is suspended; each call is one of Sends.          *)
(***************************************************************************)
serverVars == <<pureVars, clock, ticks, cacheVars, reqVars, modelVars,
                credentialsConfigured, apiKeyConfigured, queried>>

addMessage(text, type) == Append(chatMessages, [type |-> type, text |-> text])

\* getElementById finds one element, remove() takes it out
hideTypingIndicator(n) == IF n > 0 THEN n - 1 ELSE n

\* the finally block of sendMessage
sendMessageFinally(c) ==
    /\ isProcessing' = FALSE
    /\ sendButtonDisabled' = FALSE
    /\ messageInputDisabled' = FALSE
    /\ wpc' = [wpc EXCEPT ![c] = "returned"]

\* sendMessage from after its guard up to the await of fetch
sendMessageBegin(c, text) ==
    /\ isProcessing' = TRUE
    /\ sendButtonDisabled' = TRUE
    /\ messageInputDisabled' = TRUE
    /\ chatMessages' = addMessage(text, "user")
    /\ messageInputValue' = <<>>
    /\ typingIndicators' = typingIndicators + 1
    /\ suggestionsDisplay' = <<"none">>
    /\ fetches' = [fetches EXCEPT ![c] = @ + 1]
    /\ wpc' = [wpc EXCEPT ![c] = "fetch"]

\* a sendMessage that only tests the text
sendMessageUnguarded(c, text) ==
    /\ wpc[c] = "idle"
    /\ IF trim(text) = <<>>
       THEN /\ wpc' = [wpc EXCEPT ![c] = "returned"]
            /\ UNCHANGED <<isProcessing, sendButtonDisabled,
                           messageInputDisabled, messageInputValue,
                           suggestionsDisplay, typingIndicators, chatMessages,
                           fetches>>
       ELSE sendMessageBegin(c, text)
    /\ UNCHANGED serverVars

sendMessage(c, text) ==
    /\ wpc[c] = "idle"
    /\ IF isProcessing \/ trim(text) = <<>>
       THEN /\ wpc' = [wpc EXCEPT ![c] = "returned"]
            /\ UNCHANGED <<isProcessing, sendButtonDisabled,
                           messageInputDisabled, messageInputValue,
                           suggestionsDisplay, typingIndicators, chatMessages,
                           fetches>>
       ELSE sendMessageBegin(c, text)
    /\ UNCHANGED serverVars

\* the await of fetch is over
FetchResume(c, res) ==
    /\ wpc[c] = "fetch"
    /\ IF res = "response"
       THEN /\ wpc' = [wpc EXCEPT ![c] = "json"]
            /\ UNCHANGED <<isProcessing, sendButtonDisabled,
                           messageInputDisabled, typingIndicators, chatMessages>>
       ELSE /\ typingIndicators' = hideTypingIndicator(typingIndicators)
            /\ chatMessages' = addMessage(MSG_CONNECTION, "error")
            /\ sendMessageFinally(c)
    /\ UNCHANGED <<serverVars, messageInputValue, suggestionsDisplay, fetches>>

\* the await of response.json() is over
JsonResume(c, js) ==
    /\ wpc[c] = "json"
    /\ typingIndicators' = hideTypingIndicator(typingIndicators)
    /\ chatMessages' =
           IF ~js.parsed THEN addMessage(MSG_CONNECTION, "error")
           ELSE IF js.data.success THEN addMessage(js.data.message, "ai")
           ELSE IF js.data.error # Undefined /\ js.data.error # <<>>
                THEN addMessage(js.data.error, "error")
           ELSE addMessage(MSG_WIDGET_DEFAULT, "error")
    /\ sendMessageFinally(c)
    /\ UNCHANGED <<serverVars, messageInputValue, suggestionsDisplay, fetches>>

\* the user types while the input is enabled
TypeText(v) ==
    /\ ~messageInputDisabled
    /\ messageInputValue # v
    /\ messageInputValue' = v
    /\ UNCHANGED <<serverVars, isProcessing, sendButtonDisabled,
                   messageInputDisabled, suggestionsDisplay, typingIndicators,
                   chatMessages, wpc, fetches>>

NextWidget ==
    \/ \E c \in Sends, m \in WidgetTexts : sendMessage(c, m)
    \/ \E c \in Sends, res \in FetchResults : FetchResume(c, res)
    \/ \E c \in Sends, js \in JsonResults : JsonResume(c, js)
    \/ \E v \in WidgetTexts : TypeText(v)

SpecWidget == Init /\ [][NextWidget]_vars

(***************************************************************************)
(* Properties.                                                             *)
(***************************************************************************)
Returned(r) == pc[r] = "done" /\ "processMessage" \in called[r]

\* C1: whichever path built the SQL string, bigquery.query is only ever
\* called with a string for which validateQuery returns true; executeQuery
\* never forwards a string that validateQuery rejects.
C1_OnlyValidatedSqlReachesWarehouse ==
    /\ \A s \in queried : validateQuery(s)
    /\ \A r \in Clients :
         "bigquery.query" \in called[r] => validateQuery(sqlQuery[r]) /\ sqlQuery[r] \in queried

\* a query was sent to the warehouse, and a later request whose generated
\* SQL is DROP TABLE t entered executeQuery and was stopped there
C1_Witness ==
    /\ queried # {}
    /\ \E r \in Reqs :
         /\ pc[r] = "done"
         /\ sqlQuery[r] = sDropTable
         /\ "executeQuery" \in called[r]
         /\ "bigquery.query" \notin called[r]

C3_Forbidden ==
    { <<"D", "R", "O", "P">>, <<"D", "E", "L", "E", "T", "E">>,
      <<"U", "P", "D", "A", "T", "E">>, <<"I", "N", "S", "E", "R", "T">>,
      <<"A", "L", "T", "E", "R">>, <<"C", "R", "E", "A", "T", "E">>,
      <<"T", "R", "U", "N", "C", "A", "T", "E">>, <<"G", "R", "A", "N", "T">>,
      <<"R", "E", "V", "O", "K", "E">> }

C3_IsSafe(s) ==
    /\ startsWith(trim(toUpperCase(s)), <<"S", "E", "L", "E", "C", "T">>)
    /\ \A k \in C3_Forbidden : ~includes(toUpperCase(s), k)

\* C3: validateQuery(s) is true exactly when the upper-cased s, trimmed,
\* starts with SELECT and the upper-cased s contains none of the nine
\* forbidden words as a substring: it ignores case, tolerates leading white
\* space, rejects "SELECT * FROM t; DELETE FROM t" and rejects a SELECT over
\* the column updated_at.
C3_ValidateQueryExact ==
    "validateQuery" \in applied =>
        /\ vout <=> C3_IsSafe(vin)
        /\ vin = sSelectStarFromT => vout
        /\ vin = sLowerSelect => vout
        /\ vin = sLeadingWs => vout
        /\ vin = sDropTable => ~vout
        /\ vin = sSelectThenDelete => ~vout
        /\ vin = sUpdatedAt => ~vout

\* validateQuery was applied to "SELECT updated_at FROM t" and rejected it
C3_Witness ==
    /\ "validateQuery" \in applied
    /\ vin = sUpdatedAt
    /\ ~vout

\* C4: in every object processMessage returns, success = false implies
\* type = "error" or an error field is present, and type = "data" implies
\* that sql and data are both non-null.
C4_OutcomeShape ==
    \A r \in Reqs :
        Returned(r) =>
            /\ ~outcome[r].success =>
                 (outcome[r].type = "error" \/ outcome[r].error \notin {Undefined, Null})
            /\ outcome[r].type = "data" =>
                 /\ outcome[r].sql \notin {Undefined, Null}
                 /\ outcome[r].data \notin {Undefined, Null}

\* processMessage returned a data outcome whose rows are the empty list
C4_Witness ==
    \E r \in Reqs :
        /\ Returned(r)
        /\ outcome[r].type = "data"
        /\ outcome[r].data = <<>>
        /\ outcome[r].sql = sSelect1

\* C5: when a lookup is needed and the model answers with the refusal
\* sentinel (a reply beginning with ERRO), processMessage returns
\* {success: false, type: "error", sql: null} and the query executor is
\* never called.
C5_RefusalOutcome ==
    \A r \in Reqs :
        ( /\ Returned(r)
          /\ needsDatabase[r] = "true"
          /\ reply[r] # Undefined
          /\ startsWith(trim(reply[r]), ERRO) )
        => /\ ~outcome[r].success
           /\ outcome[r].type = "error"
           /\ outcome[r].sql = Null
           /\ "executeQuery" \notin called[r]

C7_GeneralPath ==
    \A r \in Reqs :
        needsDatabase[r] = "false" =>
            /\ called[r] \cap {"generateSQLQuery", "executeQuery", "bigquery.query",
                               "formatResponse"} = {}
            /\ pc[r] \in {"general", "done"}
            /\ pc[r] = "done" =>
                 /\ outcome[r].success
                 /\ outcome[r].type = "general"
                 /\ outcome[r].sql = Null
                 /\ outcome[r].data = Null
                 /\ outcome[r].error = Undefined

\* a question classified as needing no lookup was answered
C7_Witness ==
    \E r \in Reqs :
        /\ needsDatabase[r] = "false"
        /\ pc[r] = "done"
        /\ outcome[r].type = "general"

\* the cache holds a schema fetched less than one hour ago
C8_WithinTTL ==
    /\ cachedSchema # Null
    /\ schemaLastUpdated # NullTime
    /\ clock - schemaLastUpdated < 3600000

C9_StaleFallback ==
    [][ \A r \in Clients :
          ( /\ pc[r] = "fetching"
            /\ pc'[r] # "fetching"
            /\ "getDatasetSchema threw" \in called'[r] ) =>
              /\ UNCHANGED cacheVars
              /\ IF cachedSchema # Null
                 THEN /\ schema'[r] = cachedSchema
                      /\ status'[r] # 500
                      /\ "getSchema threw" \notin called'[r]
                 ELSE /\ status'[r] = 500
                      /\ "getSchema threw" \in called'[r] ]_vars

\* the cache was stale, the fetch failed and the call was answered with the
\* stale schema
C9_Witness ==
    \E r \in Callers :
        /\ pc[r] = "done"
        /\ status[r] = 200
        /\ "getDatasetSchema threw" \in called[r]
        /\ cachedSchema # Null
        /\ schema[r] = cachedSchema
        /\ clock - schemaLastUpdated >= 3600000

\* C10: when listTables succeeds and the metadata fetch fails for some
\* tables, getDatasetSchema does not fail: it returns a summary whose tables
\* are exactly the tables whose metadata fetch succeeded, in the order of
\* the listing.
C10_PartialSchema ==
    ( /\ "getDatasetSchema" \in applied
      /\ credentialsConfigured
      /\ vmeta.listOk ) =>
        /\ ~dsout.threw
        /\ {dsout.value[i] : i \in 1..Len(dsout.value)} =
             {vmeta.tableNames[i] : i \in 1..Len(vmeta.tableNames)} \cap vmeta.okTables
        /\ \A i \in 1..Len(dsout.value), j \in 1..Len(dsout.value) :
             i < j => \E k \in 1..Len(vmeta.tableNames), l \in 1..Len(vmeta.tableNames) :
                        /\ k < l
                        /\ vmeta.tableNames[k] = dsout.value[i]
                        /\ vmeta.tableNames[l] = dsout.value[j]

\* one table failed, another succeeded, and the summary holds the latter
C10_Witness ==
    /\ "getDatasetSchema" \in applied
    /\ vmeta.listOk
    /\ ~dsout.threw
    /\ dsout.value # <<>>
    /\ Len(dsout.value) < Len(vmeta.tableNames)

\* C11 (as claimed): when the warehouse query fails with an error whose text
\* contains "Not found: Table", the object processMessage returns has
\* success = false and its message field is the message naming the missing
\* table, not the raw error text.
C11_MessageFieldNamesMissingTable ==
    \A r \in Reqs :
        ( /\ Returned(r)
          /\ whError[r] # Undefined
          /\ msgIncludes(whError[r], "Not found: Table") )
        => /\ ~outcome[r].success
           /\ outcome[r].message =
                <<"Tabela nao encontrada no BigQuery. Verifique o nome da tabela.">>

\* C11 (amended): when the warehouse query fails with an error whose text
\* contains "Not found: Table", the object processMessage returns has
\* success = false, its message field is the fixed text "Erro interno ao
\* processar IA." and its error field is the message naming the missing
\* table; no part of the raw error text is in either field.
C11_ErrorFieldNamesMissingTable ==
    \A r \in Reqs :
        ( /\ Returned(r)
          /\ whError[r] # Undefined
          /\ msgIncludes(whError[r], "Not found: Table") )
        => /\ ~outcome[r].success
           /\ outcome[r].message = <<"Erro interno ao processar IA.">>
           /\ outcome[r].error =
                <<"Tabela nao encontrada no BigQuery. Verifique o nome da tabela.">>
           /\ \A i \in 1..Len(whError[r]) :
                /\ ~msgIncludes(outcome[r].error, whError[r][i])
                /\ ~msgIncludes(outcome[r].message, whError[r][i])

\* the warehouse rejected the query with "Not found: Table ..." and
\* processMessage returned
C11_Witness ==
    \E r \in Reqs :
        /\ Returned(r)
        /\ whError[r] = <<"Not found: Table", " p:d.t was not found">>
        /\ outcome[r].error # Undefined

\* C12: formatResponse never fails for its caller: when model selection or
\* the LLM call fails it returns the fixed prefix followed by the
\* stringified rows, so a successful query followed by a formatting failure
\* still gives an outcome with type = "data" and success = true.
C12_FormatNeverFails ==
    [][ \A r \in Reqs :
          (pc[r] = "format" /\ pc'[r] # "format") =>
              /\ pc'[r] = "done"
              /\ raised'[r] = Undefined
              /\ outcome'[r].success
              /\ outcome'[r].type = "data"
              /\ outcome'[r].sql = sqlQuery[r]
              /\ outcome'[r].data = queryResults[r]
              /\ \/ outcome'[r].message =
                       <<"Aqui estao os dados encontrados: ">> \o queryResults[r]
                 \/ \E t \in TextSamples : outcome'[r].message = trim(t) ]_vars

\* the query returned a row, formatting failed and the outcome is the data
\* outcome with the fallback text
C12_Witness ==
    \E r \in Reqs :
        /\ Returned(r)
        /\ outcome[r].type = "data"
        /\ outcome[r].success
        /\ queryResults[r] = <<"row1">>
        /\ outcome[r].message = <<"Aqui estao os dados encontrados: ", "row1">>

\* C13: generateSQLQuery fails, and returns no string, in each of these
\* cases: the model call fails, the stripped reply begins with ERRO, the
\* reply is empty once trimmed and rid of its code fences.
C13_GenerationFailures ==
    "generateSQLQuery" \in applied =>
        LET cleaned == trim(removeAll(removeAll(trim(gllm.text), FENCE_SQL), FENCE))
        IN  /\ ~gllm.ok => gout.threw
            /\ (gllm.ok /\ startsWith(cleaned, <<"E", "R", "R", "O">>)) => gout.threw
            /\ (gllm.ok /\ cleaned = <<>>) => gout.threw
            /\ gout.threw => gout.value = <<>> /\ gout.message # <<>>

\* the reply held nothing but code fences and white space, and
\* generateSQLQuery failed
C13_Witness ==
    /\ "generateSQLQuery" \in applied
    /\ gllm.ok
    /\ includes(gllm.text, FENCE)
    /\ Len(gllm.text) > 3
    /\ gout.threw

\* C14 (as claimed): each call of generateSQLQuery makes exactly one
\* invocation of the external LLM service, in every state of the model-name
\* cache.
C14_ExactlyOneInvocation ==
    \A r \in Reqs :
        (pc[r] = "done" /\ "generateSQLQuery" \in called[r]) => Len(llmLog[r]) = 1

\* C14 (amended): each call of generateSQLQuery sends at most one generation
\* request (generateContent with the user's question), as its last request,
\* exactly one when model selection succeeded and none when it failed, and
\* never repeats it: a failed generation ends the call with an error.  Before
\* it, a call that found no fresh cached model name sends one probe per
\* candidate tried, in list order and each candidate once, and at most one
\* listModels request.
C14_OneGenerationNoRetry ==
    \A r \in Reqs :
        LET log == llmLog[r]
            cs == candidates(envModel)
            gens == {i \in 1..Len(log) : log[i] = <<"generateContent">>}
            lists == {i \in 1..Len(log) : log[i] = <<"listModels">>}
        IN  /\ Cardinality(gens) <= 1
            /\ gens # {} => gens = {Len(log)}
            /\ Cardinality(lists) <= 1
            /\ \A i \in (1..Len(log)) \ (gens \cup lists) :
                 i <= Len(cs) /\ log[i] = cs[i]
            /\ lists # {} => \A i \in 1..Len(cs) : i \in 1..Len(log) /\ log[i] = cs[i]
            /\ (pc[r] = "done" /\ "getModelName" \in called[r]) =>
                 /\ gens # {} <=> modelName[r] # Null
                 /\ (gens # {} /\ reply[r] = Undefined) => raised[r] # Undefined
                 /\ modelName[r] = Null => raised[r] # Undefined

\* a call that found the cache empty probed two candidates before its one
\* generation request, three invocations in all, and returned a query
C14_Witness ==
    \E r \in Reqs :
        /\ pc[r] = "done"
        /\ Len(llmLog[r]) = 3
        /\ llmLog[r][3] = <<"generateContent">>
        /\ sqlQuery[r] = sSelect1

\* C20: getModelName tries the candidates in their fixed order and returns
\* and caches the first one whose probe succeeds, probing no later
\* candidate; a call that finds a cached name younger than 5 minutes returns
\* it without a probe, and a call that finds it older probes again from the
\* first candidate; the function fails only when every candidate was probed
\* without success and the listModels fallback gave no model.
C20_ModelSelection ==
    [][ \A r \in Reqs :
          LET cs == candidates(envModel)
              ix == candidateIx[r]
              fresh == /\ cachedModelName # Null
                       /\ cacheTimestamp # NullTime
                       /\ clock - cacheTimestamp < 5 * 60 * 1000
          IN  /\ (pc[r] = "idle" /\ pc'[r] # "idle") =>
                   IF fresh
                   THEN /\ modelName'[r] = cachedModelName
                        /\ llmLog'[r] = << <<"generateContent">> >>
                        /\ UNCHANGED <<cachedModelName, cacheTimestamp>>
                   ELSE /\ pc'[r] = "probing"
                        /\ modelName'[r] = Null
                        /\ llmLog'[r] = <<cs[1]>>
              /\ pc[r] = "probing" => llmLog[r] = SubSeq(cs, 1, ix)
              /\ (pc[r] = "probing" /\ pc'[r] = "content") =>
                   /\ modelName'[r] = cs[ix]
                   /\ cachedModelName' = cs[ix]
                   /\ cacheTimestamp' = clock
                   /\ llmLog'[r] = SubSeq(cs, 1, ix) \o << <<"generateContent">> >>
              /\ (pc[r] = "listing" /\ pc'[r] = "content") =>
                   /\ modelName'[r] \notin {Null, <<>>}
                   /\ cachedModelName' = modelName'[r]
                   /\ cacheTimestamp' = clock
              /\ (pc[r] \in {"probing", "listing"} /\ pc'[r] = "done") =>
                   /\ modelName'[r] = Null
                   /\ SubSeq(llmLog[r], 1, Len(cs)) = cs
                   /\ UNCHANGED <<cachedModelName, cacheTimestamp>>
                   /\ raised'[r] =
                        <<"Erro ao gerar query: ",
                          "Nenhum modelo Gemini compativel encontrado. Verifique sua API Key.">> ]_vars

\* the cached name had expired: the call probed anew, the first candidate
\* failed, the second succeeded and is now the cached name
C20_Witness ==
    \E r \in Reqs :
        /\ pc[r] = "done"
        /\ llmLog[r] = <<candidates(envModel)[1], candidates(envModel)[2],
                         <<"generateContent">> >>
        /\ modelName[r] = candidates(envModel)[2]
        /\ cachedModelName = modelName[r]
        /\ cacheTimestamp >= 5 * 60 * 1000

\* C15: a POST /message request whose message is missing, is not a string,
\* is blank once trimmed or is longer than 500 characters is answered with
\* status 400, and no schema fetch, LLM call or warehouse call is made for
\* it.
C15_InvalidMessageRejectedFirst ==
    [][ \A r \in Reqs :
          /\ ( /\ pc[r] = "idle"
               /\ pc'[r] # "idle"
               /\ route'[r] = "message"
               /\ \/ message'[r].kind # "string"
                  \/ message'[r].trimmed = 0
                  \/ message'[r].length > 500 )
             => /\ pc'[r] = "done"
                /\ status'[r] = 400
                /\ called'[r] = {}
                /\ outcome'[r] = NoOutcome
                /\ llmLog'[r] = <<>>
                /\ UNCHANGED <<cachedSchema, schemaLastUpdated, queried>>
          /\ status[r] = 400 => called[r] = {} /\ pc[r] = "done" ]_vars

\* a message made of three blanks was answered with 400
C15_Witness ==
    \E r \in Reqs :
        /\ status[r] = 400
        /\ message[r] = [kind |-> "string", length |-> 3, trimmed |-> 0]
        /\ called[r] = {}

\* C16: when validateQuery rejects the SQL, executeQuery fails without
\* calling the warehouse and the request ends in an outcome with
\* success = false; nothing is generated or executed again for the request.
C16_RejectionIsFinal ==
    [][ \A r \in Reqs :
          /\ ( /\ pc[r] = "generate"
               /\ sqlQuery'[r] # Undefined
               /\ ~validateQuery(sqlQuery'[r]) )
             => /\ pc'[r] = "done"
                /\ ~outcome'[r].success
                /\ "executeQuery" \in called'[r]
                /\ "bigquery.query" \notin called'[r]
                /\ queried' = queried
                /\ credentialsConfigured =>
                     raised'[r] =
                       <<"Erro ao consultar dados: ",
                         "Query SQL nao permitida. Apenas comandos SELECT sao aceitos.">>
          /\ ( /\ pc[r] = "done"
               /\ sqlQuery[r] # Undefined
               /\ ~validateQuery(sqlQuery[r]) )
             => /\ pc'[r] \in {"done", "idle"}
                /\ pc'[r] = "done" => called'[r] = called[r] /\ outcome'[r] = outcome[r]
                /\ sqlQuery[r] \notin queried' ]_vars

\* the generated SQL was DROP TABLE t: executeQuery threw the rejection and
\* processMessage returned the failure
C16_Witness ==
    \E r \in Reqs :
        /\ Returned(r)
        /\ sqlQuery[r] = sDropTable
        /\ ~outcome[r].success
        /\ outcome[r].error =
             <<"Erro ao consultar dados: ",
               "Query SQL nao permitida. Apenas comandos SELECT sao aceitos.">>

\* the fixed texts the code builds its error messages from; "<sqlQuery>" is
\* the model's reply quoted in a message, which is not exception text
C17_FixedTexts ==
    { "Erro interno ao processar IA.",
      "Tabela nao encontrada no BigQuery. Verifique o nome da tabela.",
      "Erro de sintaxe na query SQL. Por favor, reformule sua pergunta.",
      "Sem permissao para acessar os dados. Verifique as credenciais e permissoes da service account.",
      "Query SQL nao permitida. Apenas comandos SELECT sao aceitos.",
      "BigQuery nao esta configurado. Verifique se as credenciais foram definidas nas variaveis de ambiente.",
      "Nenhum modelo Gemini compativel encontrado. Verifique sua API Key.",
      "Erro ao consultar dados: ",
      "Erro ao gerar query: ",
      "IA nao conseguiu gerar query valida: ",
      "resposta vazia",
      "desconhecido",
      "<sqlQuery>" }

\* C17: no raw exception text reaches the caller: when a collaborator (LLM
\* or warehouse) fails, the object processMessage returns, which is the body
\* of the response, is made of fixed coarse messages only, so that it does
\* not depend on the text of the underlying exception.
C17_OnlyCoarseMessages ==
    \A r \in Reqs :
        (Returned(r) /\ ~outcome[r].success) =>
            /\ \A i \in 1..Len(outcome[r].message) :
                 outcome[r].message[i] \in C17_FixedTexts
            /\ outcome[r].error # Undefined =>
                 \A i \in 1..Len(outcome[r].error) :
                     outcome[r].error[i] \in C17_FixedTexts

\* C18: the schema is asked for only after the classifier has decided that
\* a lookup is needed: a request whose question is classified as needing no
\* lookup performs no schema fetch, and a request cannot fail on the schema
\* source before its question is classified.
C18_SchemaOnlyAfterClassification ==
    \A r \in Reqs :
        /\ "getSchema" \in called[r] => needsDatabase[r] = "true"
        /\ needsDatabase[r] = "false" => "getDatasetSchema" \notin called[r]
        /\ "getSchema threw" \in called[r] => needsDatabase[r] = "true"

\* C19: the schema summary put in the SQL-generation prompt holds, for every
\* table of the input schema, at most 20 fields, and these are the first
\* fields of the table in source order, each reduced to its name and type.
C19_CompactSchemaPrefix ==
    "compactSchema" \in applied =>
        /\ cout.form \in {"compact", "names"}
        /\ cout.form = "names" =>
             /\ \E i \in 1..Len(cin.tables) : cin.tables[i].kind = "null"
             /\ cout.tables = [i \in 1..Len(cin.tables) |-> cin.tables[i].name]
        /\ cout.form = "compact" =>
             /\ Len(cout.tables) = Len(cin.tables)
             /\ \A i \in 1..Len(cin.tables) :
                  LET src == cin.tables[i].fields
                      out == cout.tables[i].fields
                  IN  /\ cout.tables[i].name = cin.tables[i].name
                      /\ Len(out) <= 20
                      /\ Len(out) = (IF Len(src) < 20 THEN Len(src) ELSE 20)
                      /\ \A k \in 1..Len(out) :
                           out[k] = [name |-> src[k].name, type |-> src[k].type]

\* a table of 21 fields was summarised by its first 20
C19_Witness ==
    /\ "compactSchema" \in applied
    /\ cout.form = "compact"
    /\ \E i \in 1..Len(cin.tables) :
         /\ Len(cin.tables[i].fields) = 21
         /\ Len(cout.tables[i].fields) = 20
         /\ cout.tables[i].fields[20].name = 20

\* C21: requiresDatabaseQuery never throws; it returns the length heuristic
\* (true exactly when the question has more than 10 characters) when model
\* selection or the LLM call failed or the reply is not JSON; and when the
\* reply parses as JSON it returns true only if requires_db is the boolean
\* true.
C21_ClassifierContract ==
    "requiresDatabaseQuery" \in applied =>
        /\ ~fout.threw
        /\ (~fin.cls.ok \/ ~fin.cls.parses) =>
              (fout.value <=> fin.userQuestion.length > 10)
        /\ (fin.cls.ok /\ fin.cls.parses /\ fout.value) =>
              fin.cls.requires_db = "true"

\* C21 (as the code behaves): the reply has to parse to a value other than
\* null for requires_db to decide; a reply that parses to null makes the
\* property read throw, and the length heuristic answers as for any failure.
C21_ClassifierContractNonNull ==
    "requiresDatabaseQuery" \in applied =>
        /\ ~fout.threw
        /\ (~fin.cls.ok \/ ~fin.cls.parses \/ fin.cls.json = "null") =>
              (fout.value <=> fin.userQuestion.length > 10)
        /\ (fin.cls.ok /\ fin.cls.parses /\ fin.cls.json # "null") =>
              (fout.value <=> fin.cls.requires_db = "true")

C21_Witness ==
    /\ "requiresDatabaseQuery" \in applied
    /\ fin.cls.ok /\ fin.cls.parses /\ fin.cls.json = "null"
    /\ fin.userQuestion.length = 11
    /\ fout.value = TRUE

\* C22: a failed executeQuery call returns no rows and throws: the fixed
\* table-not-found text if the underlying message names a missing table,
\* else the fixed syntax text if it names a syntax error, else the fixed
\* permission text if it names a denied permission or access, else "Erro ao
\* consultar dados: " followed by the underlying message; the underlying
\* message of a configuration or validation failure is executeQuery's own.
\* The three fixed texts differ from each other.
C22_Underlying ==
    IF ~fin.configured THEN MSG_NOT_CONFIGURED
    ELSE IF ~validateQuery(fin.sql) THEN MSG_NOT_ALLOWED
    ELSE fin.wh.message

C22_Failed == ~fin.configured \/ ~validateQuery(fin.sql) \/ ~fin.wh.ok

C22_ExecuteQueryErrors ==
    "executeQuery" \in applied =>
        /\ Cardinality({MSG_TABLE_NOT_FOUND, MSG_SYNTAX, MSG_PERMISSION}) = 3
        /\ ~C22_Failed => (~fout.threw /\ fout.value = fin.wh.rows)
        /\ C22_Failed =>
              /\ fout.threw
              /\ fout.value = <<>>
              /\ fout.message =
                    IF msgIncludes(C22_Underlying, "Not found: Table")
                    THEN MSG_TABLE_NOT_FOUND
                    ELSE IF msgIncludes(C22_Underlying, "Syntax error")
                    THEN MSG_SYNTAX
                    ELSE IF \/ msgIncludes(C22_Underlying, "Permission denied")
                            \/ msgIncludes(C22_Underlying, "Access Denied")
                    THEN MSG_PERMISSION
                    ELSE <<"Erro ao consultar dados: ">> \o C22_Underlying

\* a failure whose text names a syntax error and a missing table
C22_Witness ==
    /\ "executeQuery" \in applied
    /\ fin.configured /\ validateQuery(fin.sql) /\ ~fin.wh.ok
    /\ msgIncludes(fin.wh.message, "Syntax error")
    /\ msgIncludes(fin.wh.message, "Not found: Table")
    /\ fout.message = MSG_TABLE_NOT_FOUND

\* C23: with GEMINI_API_KEY absent, a call of generateSQLQuery sends nothing
\* to the LLM service, and it ends with a configuration error.
C23_ConfigurationError == <<"GEMINI_API_KEY nao esta configurada. Configure no painel do Render.">>

C23_KeyCheckedBeforeInvocation ==
    ~apiKeyConfigured =>
        \A r \in Reqs :
            /\ llmLog[r] = <<>>
            /\ (pc[r] = "done" /\ "generateSQLQuery" \in called[r]) =>
                  msgIncludes(raised[r], C23_ConfigurationError[1])

\* C24: within one request of POST /message the stages follow each other in
\* the order schema fetch, classify, generate, execute, format, none of them
\* entered twice: the executor is entered only by the step on which SQL
\* generation returns a query, at most once, and formatResponse only by the
\* step on which the executor returns rows.
C24_StagesAfter(stage) ==
    CASE stage = "idle" -> {"fetching", "classify", "done"}
      [] stage = "fetching" -> {"classify", "done"}
      [] stage = "classify" -> {"general", "generate"}
      [] stage = "general" -> {"done"}
      [] stage = "generate" -> {"execute", "done"}
      [] stage = "execute" -> {"format", "done"}
      [] stage = "format" -> {"done"}
      [] OTHER -> {"idle"}

C24_Enters(r, f) == f \in called'[r] /\ f \notin called[r]

C24_SequentialChain ==
    [][/\ (queried' # queried) =>
            \E r \in Reqs :
                /\ pc[r] = "generate" /\ pc'[r] = "execute"
                /\ queried' = queried \cup {sqlQuery'[r]}
       /\ \A r \in Reqs :
        /\ (pc'[r] # pc[r]) => pc'[r] \in C24_StagesAfter(pc[r])
        /\ (pc'[r] = pc[r]) => called'[r] = called[r]
        /\ C24_Enters(r, "requiresDatabaseQuery") =>
              /\ pc[r] \in {"idle", "fetching"}
              /\ "getSchema" \in called'[r]
              /\ schema'[r] # Null
        /\ C24_Enters(r, "generateSQLQuery") =>
              pc[r] = "classify" /\ needsDatabase'[r] = "true"
        /\ C24_Enters(r, "executeQuery") =>
              /\ pc[r] = "generate"
              /\ "generateSQLQuery" \in called[r]
              /\ sqlQuery'[r] # Undefined
              /\ ~startsWith(sqlQuery'[r], ERRO)
        /\ C24_Enters(r, "formatResponse") =>
              /\ pc[r] = "execute"
              /\ "bigquery.query" \in called[r]
              /\ queryResults'[r] # Undefined
        /\ C24_Enters(r, "bigquery.query") =>
              pc[r] = "generate" /\ C24_Enters(r, "executeQuery")
    ]_vars

C24_Witness ==
    \E r \in Reqs :
        /\ pc[r] = "done"
        /\ {"getSchema", "requiresDatabaseQuery", "generateSQLQuery",
            "executeQuery", "formatResponse"} \subseteq called[r]
        /\ queryResults[r] = <<"row1">>
        /\ outcome[r].type = "data"

\* C25: cachedSchema is null exactly when schemaLastUpdated is null, and
\* every step that changes one of the two either clears both or is the end
\* of one getSchema call's fetch, which stores the schema that fetch returned
\* together with the time that same call read at its start.
C25_PairFromOneFetch ==
    [][/\ (cachedSchema' = Null) <=> (schemaLastUpdated' = NullTime)
       /\ (cachedSchema' # cachedSchema \/ schemaLastUpdated' # schemaLastUpdated) =>
            \/ cachedSchema' = Null /\ schemaLastUpdated' = NullTime
            \/ \E r \in Clients :
                   /\ pc[r] = "fetching" /\ pc'[r] # "fetching"
                   /\ "getDatasetSchema threw" \notin called'[r]
                   /\ cachedSchema' = schema'[r]
                   /\ schemaLastUpdated' = now[r]
    ]_vars

\* a call that started later has stored its fetch while an earlier one is
\* still waiting for its own
C25_Witness ==
    /\ cachedSchema # Null
    /\ \E r \in Callers :
          /\ pc[r] = "fetching"
          /\ now[r] < schemaLastUpdated

\* C26 (as claimed): while the cache is not cleared, schemaLastUpdated never
\* decreases.
C26_TimestampMonotone ==
    [][(schemaLastUpdated # NullTime /\ schemaLastUpdated' # NullTime) =>
          schemaLastUpdated' >= schemaLastUpdated]_vars

\* C26 (as the code behaves): a refresh stamps the cache with the time its
\* own getSchema call started, whatever is stored already; so the timestamp
\* never exceeds the clock, and it decreases only when the refresh that
\* completes started before the one whose stamp is stored.
C26_StampIsStartOfLastWriter ==
    [][/\ schemaLastUpdated' <= clock'
       /\ (schemaLastUpdated' # schemaLastUpdated /\ schemaLastUpdated' # NullTime) =>
            \E r \in Clients :
                /\ pc[r] = "fetching" /\ pc'[r] # "fetching"
                /\ schemaLastUpdated' = now[r]
                /\ (schemaLastUpdated # NullTime /\ schemaLastUpdated' < schemaLastUpdated)
                      => now[r] < schemaLastUpdated
    ]_vars

\* a refresh that started half a cache life after another has completed
\* first, and the earlier one is still waiting
C26_Witness ==
    \E r \in Callers :
        /\ pc[r] = "fetching"
        /\ schemaLastUpdated # NullTime
        /\ schemaLastUpdated - now[r] >= SCHEMA_CACHE_DURATION \div 2

\* C29: a step that clears one cache slot clears both and changes nothing
\* else; while the cache is empty a getSchema call starts a warehouse fetch
\* whatever the clock says, and a call whose fetch fails while the cache is
\* empty fails itself, leaving the cache empty.
C29_ClearThenFetch ==
    [][/\ (\/ cachedSchema # Null /\ cachedSchema' = Null
           \/ schemaLastUpdated # NullTime /\ schemaLastUpdated' = NullTime) =>
            /\ cachedSchema' = Null
            /\ schemaLastUpdated' = NullTime
            /\ UNCHANGED <<clock, ticks, reqVars, modelVars,
                           credentialsConfigured, apiKeyConfigured, queried>>
       /\ \A r \in Clients :
            /\ (pc[r] = "idle" /\ pc'[r] # "idle" /\ cachedSchema = Null) =>
                  /\ pc'[r] = "fetching"
                  /\ "getDatasetSchema" \in called'[r]
                  /\ now'[r] = clock
            /\ (/\ pc[r] = "fetching" /\ pc'[r] # "fetching"
                /\ cachedSchema = Null
                /\ "getDatasetSchema threw" \in called'[r]) =>
                  /\ "getSchema threw" \in called'[r]
                  /\ status'[r] = 500
                  /\ schema'[r] = Null
                  /\ cachedSchema' = Null
    ]_vars

\* before the clock has moved, one call was answered with a fetched schema,
\* the cache is empty again and another call has failed
C29_Witness ==
    /\ ticks = 0
    /\ cachedSchema = Null
    /\ \E r, q \in Callers :
          /\ pc[r] = "done" /\ status[r] = 200 /\ schema[r] # Null
          /\ pc[q] = "done" /\ status[q] = 500
          /\ "getSchema threw" \in called[q]

\* C27: when the question was classified as conversational and model
\* selection or the model call of processGeneralQuestion failed, the request
\* is still answered 200 with success = true, type = "general", sql and data
\* null, and the fixed apology as message; nothing reached processMessage's
\* catch.
C27_GeneralFailureIsSuccess ==
    \A r \in Reqs :
        (pc[r] = "done" /\ generalCaught[r]) =>
            /\ needsDatabase[r] = "false"
            /\ status[r] = 200
            /\ outcome[r].success = TRUE
            /\ outcome[r].type = "general"
            /\ outcome[r].message =
                  <<"Desculpe, estou tendo dificuldades para responder agora.">>
            /\ outcome[r].sql = Null /\ outcome[r].data = Null
            /\ outcome[r].error = Undefined
            /\ raised[r] = Undefined

C27_Witness ==
    \E r \in Reqs :
        /\ pc[r] = "done"
        /\ generalCaught[r]
        /\ outcome[r].success = TRUE
        /\ outcome[r].message = MSG_APOLOGY

\* C28: isProcessing is true exactly while one sendMessage call is between
\* its guard and its finally block, and there is never more than one such
\* call; while it is true the button and the input are disabled and one
\* typing indicator is shown, otherwise they are enabled and none is shown.
\* A call entered while isProcessing is true returns at once, sends no
\* request and changes nothing; no call sends more than one request; and a
\* call that leaves its awaits, for whatever reason, leaves isProcessing
\* false.
C28_InFlight == {c \in Sends : wpc[c] \in {"fetch", "json"}}

C28_Consistent ==
    /\ isProcessing <=> (C28_InFlight # {})
    /\ Cardinality(C28_InFlight) <= 1
    /\ sendButtonDisabled = isProcessing
    /\ messageInputDisabled = isProcessing
    /\ typingIndicators = (IF isProcessing THEN 1 ELSE 0)
    /\ \A c \in Sends : fetches[c] <= 1
    /\ \A c \in Sends : wpc[c] \in {"fetch", "json"} => fetches[c] = 1

C28_OneSendInFlight ==
    [][/\ C28_Consistent /\ C28_Consistent'
       /\ \A c \in Sends :
            /\ (wpc[c] = "idle" /\ wpc'[c] # "idle" /\ isProcessing) =>
                  /\ wpc'[c] = "returned"
                  /\ fetches' = fetches
                  /\ UNCHANGED <<isProcessing, sendButtonDisabled,
                                 messageInputDisabled, typingIndicators,
                                 chatMessages>>
            /\ (wpc[c] \in {"fetch", "json"} /\ wpc'[c] = "returned") =>
                  /\ ~isProcessing'
                  /\ ~sendButtonDisabled' /\ ~messageInputDisabled'
                  /\ typingIndicators' = 0
                  /\ Len(chatMessages') = Len(chatMessages) + 1
       ]_vars

\* one call was turned away while another was waiting, which then ended in
\* the catch
C28_Witness ==
    \E c, d \in Sends :
        /\ c # d
        /\ wpc[c] = "returned" /\ fetches[c] = 0
        /\ wpc[d] = "returned" /\ fetches[d] = 1
        /\ ~isProcessing
        /\ Len(chatMessages) = 2
        /\ chatMessages[2] = [type |-> "error", text |-> MSG_CONNECTION]

====
